---- MODULE Spec2Model ----
(***************************************************************************)
(* HubSpot MCP server: the request/response adaptation layer               *)
(* (formatResponse, makeApiRequest, makeApiRequestWithErrorHandling,       *)
(* handleEndpoint), the token configuration read by createServer, and the  *)
(* tool handlers built on them.                                            *)
(***************************************************************************)
EXTENDS Integers, Sequences, FiniteSets, TLC

(***************************************************************************)
(* Bounds of the model.                                                    *)
(***************************************************************************)
MaxCalls == 2
MaxItems == 2
MaxRequests == 2  \* POST /mcp requests in flight at once
MaxPosts == 2     \* POST /mcp requests over the life of a process

(***************************************************************************)
(* JavaScript values.  A value is a record tagged by k.                    *)
(***************************************************************************)
Undefined == [k |-> "undefined"]
Null == [k |-> "null"]
Str(s) == [k |-> "string", s |-> s]
Num(n) == [k |-> "number", n |-> n]
Bool(b) == [k |-> "boolean", b |-> b]
Arr(items) == [k |-> "array", items |-> items]
Obj(keys, vals) == [k |-> "object", keys |-> keys, vals |-> vals]
\* an Error instance: name and message are own, non-enumerable properties
Err(name, message) == [k |-> "error", name |-> name, message |-> message]

RECURSIVE JoinStrings(_, _)
\* Array.prototype.join on an array of strings
JoinStrings(ss, sep) ==
  IF Len(ss) = 0 THEN ""
  ELSE IF Len(ss) = 1 THEN ss[1]
  ELSE ss[1] \o sep \o JoinStrings(Tail(ss), sep)

\* the indices of the members JSON.stringify writes: undefined ones are left out
Enumerable(o) == SelectSeq([i \in 1..Len(o.keys) |-> i], LAMBDA i : o.vals[i].k # "undefined")

\* one character of a string as JSON.stringify writes it between the quotes
\* (a control character without a short form, written \u00XX, is one a
\* string of this module cannot hold)
JsonEscapeChar(ch) ==
  CASE ch = "\"" -> "\\\""
    [] ch = "\\" -> "\\\\"
    [] ch = "\n" -> "\\n"
    [] ch = "\r" -> "\\r"
    [] ch = "\t" -> "\\t"
    [] ch = "\f" -> "\\f"
    [] OTHER -> ch

RECURSIVE JsonEscape(_)
JsonEscape(s) ==
  IF Len(s) = 0 THEN ""
  ELSE JsonEscapeChar(SubSeq(s, 1, 1)) \o JsonEscape(SubSeq(s, 2, Len(s)))

\* a string as a JSON string literal
JsonQuote(s) == "\"" \o JsonEscape(s) \o "\""

RECURSIVE JSONstringify(_)
\* JSON.stringify on the values above
JSONstringify(v) ==
  CASE v.k = "string" -> JsonQuote(v.s)
    [] v.k = "number" -> ToString(v.n)
    [] v.k = "boolean" -> (IF v.b THEN "true" ELSE "false")
    [] v.k = "null" -> "null"
    [] v.k = "undefined" -> "null"  \* as an array element
    [] v.k = "error" -> "{}"
    [] v.k = "array" ->
         "[" \o JoinStrings([i \in 1..Len(v.items) |-> JSONstringify(v.items[i])], ",") \o "]"
    [] v.k = "object" ->
         LET idx == Enumerable(v)
         IN "{" \o JoinStrings([j \in 1..Len(idx) |->
                    JsonQuote(v.keys[idx[j]]) \o ":" \o JSONstringify(v.vals[idx[j]])], ",") \o "}"

\* typeof
TypeOf(v) ==
  CASE v.k \in {"string", "number", "boolean", "undefined"} -> v.k
    [] OTHER -> "object"

\* String(data) for the primitives that reach the last branch of formatResponse
StringOf(v) ==
  CASE v.k = "number" -> ToString(v.n)
    [] v.k = "boolean" -> (IF v.b THEN "true" ELSE "false")
    [] OTHER -> ""

\* formatResponse wrapping a structured result in an outer object
formatResponseWrapped(data) ==
  LET text ==
        IF TypeOf(data) = "string" THEN data.s
        ELSE IF data.k = "null" \/ data.k = "undefined" THEN "No data returned"
        ELSE IF TypeOf(data) = "object" THEN "{\"data\":" \o JSONstringify(data) \o "}"
        ELSE StringOf(data)
  IN [content |-> <<[type |-> "text", text |-> text]>>]

\* formatResponse converting every non-string with String(data)
formatResponseStringifies(data) ==
  LET text ==
        IF TypeOf(data) = "string" THEN data.s
        ELSE IF data.k = "null" THEN "null"
        ELSE IF data.k = "undefined" THEN "undefined"
        ELSE IF TypeOf(data) = "object" THEN "[object Object]"
        ELSE StringOf(data)
  IN [content |-> <<[type |-> "text", text |-> text]>>]

\* formatResponse with an error flag on diagnostic strings
formatResponseWithFlag(data) ==
  LET text ==
        IF TypeOf(data) = "string" THEN data.s
        ELSE IF data.k = "null" \/ data.k = "undefined" THEN "No data returned"
        ELSE IF TypeOf(data) = "object" THEN JSONstringify(data)
        ELSE StringOf(data)
  IN IF TypeOf(data) = "string"
     THEN [content |-> <<[type |-> "text", text |-> text]>>, isError |-> TRUE]
     ELSE [content |-> <<[type |-> "text", text |-> text]>>]

formatResponse(data) ==
  LET text ==
        IF TypeOf(data) = "string" THEN data.s
        ELSE IF data.k = "null" \/ data.k = "undefined" THEN "No data returned"
        ELSE IF TypeOf(data) = "object" THEN JSONstringify(data)
        ELSE StringOf(data)
  IN [content |-> <<[type |-> "text", text |-> text]>>]

(***************************************************************************)
(* Completions of an async function: it returns a value or throws one.     *)
(***************************************************************************)
Return(v) == [c |-> "return", v |-> v]
Throw(v) == [c |-> "throw", v |-> v]

\* a member that refers back to the object holding it
Circular == [k |-> "circular"]

RECURSIVE Serializable(_)
\* JSON.stringify(v) returns; on a circular structure it throws
Serializable(v) ==
  CASE v.k = "circular" -> FALSE
    [] v.k = "array" -> \A i \in 1..Len(v.items) : Serializable(v.items[i])
    [] v.k = "object" -> \A i \in 1..Len(v.keys) : Serializable(v.vals[i])
    [] OTHER -> TRUE

RECURSIVE CircleOf(_)
\* the lines of the TypeError's message that name the circle: the object the
\* circle starts at and the member that closes it
CircleOf(v) ==
  IF v.k = "object"
  THEN LET i == CHOOSE i \in 1..Len(v.keys) :
                  /\ ~Serializable(v.vals[i])
                  /\ \A j \in 1..(i - 1) : Serializable(v.vals[j])
       IN IF v.vals[i].k = "circular"
          THEN "\n    --> starting at object with constructor 'Object'"
                 \o "\n    --- property '" \o v.keys[i] \o "' closes the circle"
          ELSE CircleOf(v.vals[i])
  ELSE LET i == CHOOSE i \in 1..Len(v.items) :
                  /\ ~Serializable(v.items[i])
                  /\ \A j \in 1..(i - 1) : Serializable(v.items[j])
       IN IF v.items[i].k = "circular"
          THEN "\n    --> starting at object with constructor 'Array'"
                 \o "\n    --- index " \o ToString(i - 1) \o " closes the circle"
          ELSE CircleOf(v.items[i])

\* a call formatResponse(data): the envelope, or what JSON.stringify throws
formatResponseCall(data) ==
  IF TypeOf(data) = "object" /\ data.k # "null" /\ ~Serializable(data)
  THEN Throw(Err("TypeError", "Converting circular structure to JSON" \o CircleOf(data)))
  ELSE Return(formatResponse(data))

(***************************************************************************)
(* JSON.parse, as the parser of the runtime (V8 of node 20) reads a text   *)
(* and words its SyntaxError.  Positions in the text count from 1 here and *)
(* from 0 in the messages.                                                 *)
(***************************************************************************)
\* the character of text at index p, or "" past its end
CharAt(text, p) == IF p <= Len(text) THEN SubSeq(text, p, p) ELSE ""

JsonWhitespace == {" ", "\t", "\n", "\r"}
Digits == {"0", "1", "2", "3", "4", "5", "6", "7", "8", "9"}
HexDigits == Digits \cup {"a", "b", "c", "d", "e", "f", "A", "B", "C", "D", "E", "F"}
\* the characters below U+0020 a string of this module can hold
ControlChars == {"\t", "\n", "\f", "\r"}

DigitValue(ch) ==
  CASE ch = "0" -> 0 [] ch = "1" -> 1 [] ch = "2" -> 2 [] ch = "3" -> 3 [] ch = "4" -> 4
    [] ch = "5" -> 5 [] ch = "6" -> 6 [] ch = "7" -> 7 [] ch = "8" -> 8 [] ch = "9" -> 9

RECURSIVE DigitsValue(_)
DigitsValue(s) ==
  IF Len(s) = 0 THEN 0
  ELSE 10 * DigitsValue(SubSeq(s, 1, Len(s) - 1)) + DigitValue(SubSeq(s, Len(s), Len(s)))

RECURSIVE SkipWhitespace(_, _)
SkipWhitespace(text, p) ==
  IF CharAt(text, p) \in JsonWhitespace THEN SkipWhitespace(text, p + 1) ELSE p

RECURSIVE ScanDigits(_, _)
\* the index after the digits that start at p
ScanDigits(text, p) ==
  IF CharAt(text, p) \in Digits THEN ScanDigits(text, p + 1) ELSE p

\* a part of the text read up to pos, or the message of the SyntaxError
Parsed(v, pos) == [ok |-> TRUE, v |-> v, pos |-> pos]
Failed(message) == [ok |-> FALSE, message |-> message]

AtPosition(p) == " in JSON at position " \o ToString(p - 1)

\* a value of JSON no value of the model stands for: a number with a
\* fraction, an exponent or a magnitude above MaxInteger, a string with a character
\* no string of this module can hold, an object with such a key
Unrepresented == [k |-> "unrepresented"]

SpecialStrings == {"NaN", "Infinity", "undefined", "[object Object]"}
MaxContextCharacters == 10

\* the message for the character ch at p where no token may start with it
UnexpectedTokenAt(text, p, ch) ==
  IF ch = "" THEN "Unexpected end of JSON input"
  ELSE IF ch \in Digits \cup {"-"} THEN "Unexpected number" \o AtPosition(p)
  ELSE IF ch = "\"" THEN "Unexpected string" \o AtPosition(p)
  ELSE IF text \in SpecialStrings THEN "\"" \o text \o "\" is not valid JSON"
  ELSE "Unexpected token '" \o ch \o "', " \o
       (IF Len(text) < 2 * MaxContextCharacters + 1
        THEN "\"" \o text \o "\" is not valid JSON"
        ELSE IF p - 1 < MaxContextCharacters
        THEN "\"" \o SubSeq(text, 1, p - 1 + MaxContextCharacters)
               \o "\"... is not valid JSON"
        ELSE IF p - 1 < Len(text) - MaxContextCharacters
        THEN "...\"" \o SubSeq(text, p - MaxContextCharacters, p - 1 + MaxContextCharacters)
               \o "\"... is not valid JSON"
        ELSE "...\"" \o SubSeq(text, p - MaxContextCharacters, Len(text))
               \o "\" is not valid JSON")

UnexpectedToken(text, p) == UnexpectedTokenAt(text, p, CharAt(text, p))

\* the character an escape sequence \e stands for
Unescaped(e) ==
  CASE e = "n" -> "\n"
    [] e = "r" -> "\r"
    [] e = "t" -> "\t"
    [] e = "f" -> "\f"
    [] OTHER -> e

\* among the four characters after \u at p and p + 1, the offset from p of
\* the first that is not a hexadecimal digit, or 0
BadHexDigit(text, p) ==
  IF \A i \in 2..5 : CharAt(text, p + i) \in HexDigits THEN 0
  ELSE CHOOSE i \in 2..5 :
         /\ CharAt(text, p + i) \notin HexDigits
         /\ \A j \in 2..(i - 1) : CharAt(text, p + j) \in HexDigits

HexValue(ch) ==
  CASE ch \in Digits -> DigitValue(ch)
    [] ch \in {"a", "A"} -> 10 [] ch \in {"b", "B"} -> 11 [] ch \in {"c", "C"} -> 12
    [] ch \in {"d", "D"} -> 13 [] ch \in {"e", "E"} -> 14 [] ch \in {"f", "F"} -> 15
    [] OTHER -> 0

\* the code unit the escape \uXXXX at p and p + 1 names
EscapedCodeUnit(text, p) ==
  4096 * HexValue(CharAt(text, p + 2)) + 256 * HexValue(CharAt(text, p + 3))
    + 16 * HexValue(CharAt(text, p + 4)) + HexValue(CharAt(text, p + 5))

\* the characters U+0020 to U+005F and U+0061 to U+007E, in order
PrintableLow == " !\"#$%&'()*+,-./0123456789:;<=>?@ABCDEFGHIJKLMNOPQRSTUVWXYZ[\\]^_"
PrintableHigh == "abcdefghijklmnopqrstuvwxyz{|}~"

\* the character of a code unit, or "" where no string of this module can
\* hold it
CharOfCodeUnit(unit) ==
  CASE unit = 9 -> "\t"
    [] unit = 10 -> "\n"
    [] unit = 12 -> "\f"
    [] unit = 13 -> "\r"
    [] unit \in 32..95 -> SubSeq(PrintableLow, unit - 31, unit - 31)
    [] unit \in 97..126 -> SubSeq(PrintableHigh, unit - 96, unit - 96)
    [] OTHER -> ""

RECURSIVE ScanJsonString(_, _, _, _)
RECURSIVE ScanStringChar(_, _, _, _, _, _)

\* the string literal whose next character is at p; acc is what was read of
\* it, and held whether a string of the model can hold it
ScanJsonString(text, p, acc, held) ==
  ScanStringChar(text, p, acc, held, CharAt(text, p), CharAt(text, p + 1))

\* the escape \uXXXX at p, given the offset of its first bad digit and the
\* character it names
ScanUnicodeEscape(text, p, acc, held, bad, ch) ==
  IF bad = 0 THEN ScanJsonString(text, p + 6, acc \o ch, held /\ ch # "")
  ELSE Failed("Bad Unicode escape" \o AtPosition(p + bad))

\* the same, given the character ch at p and the character e after it
ScanStringChar(text, p, acc, held, ch, e) ==
  IF ch = "" THEN Failed("Unterminated string" \o AtPosition(p))
  ELSE IF ch = "\"" THEN Parsed([s |-> acc, held |-> held], p + 1)
  ELSE IF ch \in ControlChars
  THEN Failed("Bad control character in string literal" \o AtPosition(p))
  ELSE IF ch # "\\" THEN ScanJsonString(text, p + 1, acc \o ch, held)
  ELSE IF e = "" THEN Failed("Unexpected end of JSON input")
  ELSE IF e \in {"\"", "\\", "/", "n", "r", "t", "f"}
  THEN ScanJsonString(text, p + 2, acc \o Unescaped(e), held)
  ELSE IF e = "b" THEN ScanJsonString(text, p + 2, acc, FALSE)
  ELSE IF e = "u"
  THEN ScanUnicodeEscape(text, p, acc, held, BadHexDigit(text, p),
                         CharOfCodeUnit(EscapedCodeUnit(text, p)))
  ELSE Failed("Bad escaped character" \o AtPosition(p + 1))

\* a < b for numerals without leading zeros
NumeralLess(a, b) ==
  \/ Len(a) < Len(b)
  \/ /\ Len(a) = Len(b)
     /\ \E i \in 1..Len(a) :
          /\ DigitValue(SubSeq(a, i, i)) < DigitValue(SubSeq(b, i, i))
          /\ SubSeq(a, 1, i - 1) = SubSeq(b, 1, i - 1)

\* the largest integer a number of this module holds, 2^31 - 1
MaxInteger == "2147483647"

\* the digits of an exponent, which start at x and end before e
ScanExponentDigits(x, e) ==
  IF e = x THEN Failed("Exponent part is missing a number" \o AtPosition(x))
  ELSE Parsed(Unrepresented, e)

\* the exponent of a number, if one starts at p; v is the number without it
ScanExponent(text, p, v) ==
  IF CharAt(text, p) \notin {"e", "E"} THEN Parsed(v, p)
  ELSE IF CharAt(text, p + 1) \in {"+", "-"}
  THEN ScanExponentDigits(p + 2, ScanDigits(text, p + 2))
  ELSE ScanExponentDigits(p + 1, ScanDigits(text, p + 1))

\* the digits of a fraction, which start at f and end before e
ScanFractionDigits(text, f, e) ==
  IF e = f THEN Failed("Unterminated fractional number" \o AtPosition(f))
  ELSE ScanExponent(text, e, Unrepresented)

\* the rest of a number after its integer digits, which end before p
ScanNumberTail(text, p, v) ==
  IF CharAt(text, p) = "." THEN ScanFractionDigits(text, p + 1, ScanDigits(text, p + 1))
  ELSE ScanExponent(text, p, v)

\* the integer digits of a number, which start at d and end before e
ScanInteger(text, d, sign, e) ==
  IF CharAt(text, d) = "0"
  THEN IF CharAt(text, d + 1) \in Digits THEN Failed("Unexpected number" \o AtPosition(d + 1))
       ELSE ScanNumberTail(text, d + 1, Num(0))
  ELSE IF e = d THEN Failed("No number after minus sign" \o AtPosition(d))
  ELSE IF NumeralLess(MaxInteger, SubSeq(text, d, e - 1))
  THEN ScanNumberTail(text, e, Unrepresented)
  ELSE ScanNumberTail(text, e, Num(sign * DigitsValue(SubSeq(text, d, e - 1))))

\* the number that starts at p with a digit or a minus sign
ParseJsonNumber(text, p) ==
  IF CharAt(text, p) = "-" THEN ScanInteger(text, p + 1, -1, ScanDigits(text, p + 1))
  ELSE ScanInteger(text, p, 1, ScanDigits(text, p))

\* the literals by their first character
Literals ==
  [ch \in {"t", "f", "n"} |->
     CASE ch = "t" -> [word |-> "true", v |-> Bool(TRUE)]
       [] ch = "f" -> [word |-> "false", v |-> Bool(FALSE)]
       [] ch = "n" -> [word |-> "null", v |-> Null]]

\* the literal word, whose first character is at p
ScanLiteral(text, p, word, v) ==
  IF \A i \in 1..Len(word) : CharAt(text, p + i - 1) = SubSeq(word, i, i)
  THEN Parsed(v, p + Len(word))
  ELSE Failed(UnexpectedToken(text,
         p - 1 + CHOOSE i \in 2..Len(word) :
                   /\ CharAt(text, p + i - 1) # SubSeq(word, i, i)
                   /\ \A j \in 2..(i - 1) : CharAt(text, p + j - 1) = SubSeq(word, j, j)))

\* the largest array index, 2^32 - 2
MaxArrayIndex == "4294967294"

\* a key that is an array index
IsArrayIndex(key) ==
  /\ Len(key) >= 1
  /\ \A i \in 1..Len(key) : SubSeq(key, i, i) \in Digits
  /\ Len(key) > 1 => SubSeq(key, 1, 1) # "0"
  /\ ~NumeralLess(MaxArrayIndex, key)

\* the members in the order of the object's keys: keys that are array
\* indices first, in ascending order, then the others as first read
KeyOrder(keys, first) ==
  SortSeq(SelectSeq(first, LAMBDA i : IsArrayIndex(keys[i])),
          LAMBDA a, b : NumeralLess(keys[a], keys[b]))
    \o SelectSeq(first, LAMBDA i : ~IsArrayIndex(keys[i]))

\* the object of the members in order, each key with the value read last
ObjectIn(keys, vals, order) ==
  Obj([i \in 1..Len(order) |-> keys[order[i]]],
      [i \in 1..Len(order) |->
         vals[CHOOSE j \in 1..Len(keys) :
                /\ keys[j] = keys[order[i]]
                /\ \A m \in (j + 1)..Len(keys) : keys[m] # keys[j]]])

\* the object of the members read
ObjectOf(keys, vals) ==
  ObjectIn(keys, vals,
           KeyOrder(keys, SelectSeq([i \in 1..Len(keys) |-> i],
                                    LAMBDA i : \A j \in 1..(i - 1) : keys[j] # keys[i])))

RECURSIVE ParseJsonValue(_, _)
RECURSIVE ParseJsonElements(_, _, _)
RECURSIVE ParseJsonMembers(_, _, _, _, _, _)

\* array: after the element read, with the elements before it
ElementRead(text, items, element) ==
  LET q == SkipWhitespace(text, element.pos)
  IN IF ~element.ok THEN element
     ELSE IF CharAt(text, q) = ","
     THEN ParseJsonElements(text, q + 1, Append(items, element.v))
     ELSE IF CharAt(text, q) = "]" THEN Parsed(Arr(Append(items, element.v)), q + 1)
     ELSE Failed("Expected ',' or ']' after array element" \o AtPosition(q))

\* the elements of an array from the one that starts at p on
ParseJsonElements(text, p, items) ==
  ElementRead(text, items, ParseJsonValue(text, p))

\* object: after the value of a member, with the keys up to its own and the
\* values before it; held is whether strings of the model hold the keys
MemberRead(text, keys, vals, held, member) ==
  LET r == SkipWhitespace(text, member.pos)
  IN IF ~member.ok THEN member
     ELSE IF CharAt(text, r) = ","
     THEN ParseJsonMembers(text, r + 1, keys, Append(vals, member.v), FALSE, held)
     ELSE IF CharAt(text, r) = "}"
     THEN Parsed(IF held THEN ObjectOf(keys, Append(vals, member.v)) ELSE Unrepresented,
                 r + 1)
     ELSE Failed("Expected ',' or '}' after property value" \o AtPosition(r))

\* object: after the key of a member.  Only after the first key of an object
\* has a missing colon a message of its own
KeyRead(text, keys, vals, isFirst, held, key) ==
  LET colon == SkipWhitespace(text, key.pos)
  IN IF ~key.ok THEN key
     ELSE IF CharAt(text, colon) # ":"
     THEN Failed(IF isFirst THEN "Expected ':' after property name" \o AtPosition(colon)
                 ELSE UnexpectedToken(text, colon))
     ELSE MemberRead(text, Append(keys, key.v.s), vals, held /\ key.v.held,
                     ParseJsonValue(text, colon + 1))

\* the members of an object from the one whose key starts at or after p on
ParseJsonMembers(text, p, keys, vals, isFirst, held) ==
  LET q == SkipWhitespace(text, p)
  IN IF CharAt(text, q) # "\""
     THEN Failed((IF isFirst THEN "Expected property name or '}'"
                  ELSE "Expected double-quoted property name") \o AtPosition(q))
     ELSE KeyRead(text, keys, vals, isFirst, held, ScanJsonString(text, q + 1, "", TRUE))

\* the value of a string literal read
StringRead(string) ==
  IF ~string.ok THEN string
  ELSE Parsed(IF string.v.held THEN Str(string.v.s) ELSE Unrepresented, string.pos)

\* the value that starts at q with the character ch; inner is where the first
\* member or element of an object or array would start
ValueAt(text, q, ch, inner) ==
  CASE ch = "\"" -> StringRead(ScanJsonString(text, q + 1, "", TRUE))
    [] ch \in Digits \cup {"-"} -> ParseJsonNumber(text, q)
    [] ch = "{" ->
         (IF CharAt(text, inner) = "}" THEN Parsed(Obj(<<>>, <<>>), inner + 1)
          ELSE ParseJsonMembers(text, inner, <<>>, <<>>, TRUE, TRUE))
    [] ch = "[" ->
         (IF CharAt(text, inner) = "]" THEN Parsed(Arr(<<>>), inner + 1)
          ELSE ParseJsonElements(text, inner, <<>>))
    [] ch \in DOMAIN Literals -> ScanLiteral(text, q, Literals[ch].word, Literals[ch].v)
    [] OTHER -> Failed(UnexpectedTokenAt(text, q, ch))

\* the value that starts at or after p
ParseJsonValue(text, p) ==
  LET q == SkipWhitespace(text, p)
  IN ValueAt(text, q, CharAt(text, q), SkipWhitespace(text, q + 1))

\* the end of the text after its value
ParseJsonEnd(text, value, end) ==
  IF end <= Len(text)
  THEN Throw(Err("SyntaxError",
                 "Unexpected non-whitespace character after JSON at position "
                   \o ToString(end - 1)))
  ELSE Return(value.v)

\* the completion of JSON.parse from the value read
ParseJsonResult(text, value) ==
  IF ~value.ok THEN Throw(Err("SyntaxError", value.message))
  ELSE ParseJsonEnd(text, value, SkipWhitespace(text, value.pos))

\* JSON.parse(text)
JSONparse(text) == ParseJsonResult(text, ParseJsonValue(text, 1))

\* !v
Falsy(v) ==
  \/ v.k \in {"undefined", "null"}
  \/ (v.k = "string" /\ v.s = "")
  \/ (v.k = "number" /\ v.n = 0)
  \/ (v.k = "boolean" /\ ~v.b)

\* the property read error.message; reading a property of null or undefined throws
HasMessage(e) == e.k = "error" \/ (e.k = "object" /\ \E i \in 1..Len(e.keys) : e.keys[i] = "message")
MessageOf(e) ==
  IF e.k = "error" THEN Str(e.message)
  ELSE IF HasMessage(e) THEN e.vals[CHOOSE i \in 1..Len(e.keys) : e.keys[i] = "message"]
  ELSE Undefined

RECURSIVE Interpolate(_)
\* a value inside a template literal; an array writes null, undefined and
\* the array it is already writing as the empty string
Interpolate(v) ==
  CASE v.k = "string" -> v.s
    [] v.k = "undefined" -> "undefined"
    [] v.k = "null" -> "null"
    [] v.k = "number" -> ToString(v.n)
    [] v.k = "boolean" -> (IF v.b THEN "true" ELSE "false")
    [] v.k = "error" ->
         (IF v.name = "" THEN v.message
          ELSE IF v.message = "" THEN v.name
          ELSE v.name \o ": " \o v.message)
    [] v.k = "array" ->
         JoinStrings([i \in 1..Len(v.items) |->
            IF v.items[i].k \in {"null", "undefined", "circular"} THEN ""
            ELSE Interpolate(v.items[i])], ",")
    [] OTHER -> "[object Object]"

(***************************************************************************)
(* The outbound request: query string, URL, headers, payload.              *)
(***************************************************************************)
\* application/x-www-form-urlencoded serialisation of one character
\* (letters, digits and * - . _ are kept; the backtick, which a string of
\* this module cannot hold, is written %60)
FormEncodeChar(ch) ==
  CASE ch = " " -> "+"
    [] ch = "\t" -> "%09"
    [] ch = "\n" -> "%0A"
    [] ch = "\f" -> "%0C"
    [] ch = "\r" -> "%0D"
    [] ch = "!" -> "%21"
    [] ch = "\"" -> "%22"
    [] ch = "#" -> "%23"
    [] ch = "$" -> "%24"
    [] ch = "%" -> "%25"
    [] ch = "&" -> "%26"
    [] ch = "'" -> "%27"
    [] ch = "(" -> "%28"
    [] ch = ")" -> "%29"
    [] ch = "+" -> "%2B"
    [] ch = "," -> "%2C"
    [] ch = "/" -> "%2F"
    [] ch = ":" -> "%3A"
    [] ch = ";" -> "%3B"
    [] ch = "<" -> "%3C"
    [] ch = "=" -> "%3D"
    [] ch = ">" -> "%3E"
    [] ch = "?" -> "%3F"
    [] ch = "@" -> "%40"
    [] ch = "[" -> "%5B"
    [] ch = "\\" -> "%5C"
    [] ch = "]" -> "%5D"
    [] ch = "^" -> "%5E"
    [] ch = "{" -> "%7B"
    [] ch = "|" -> "%7C"
    [] ch = "}" -> "%7D"
    [] ch = "~" -> "%7E"
    [] OTHER -> ch

RECURSIVE FormEncode(_)
FormEncode(s) ==
  IF Len(s) = 0 THEN ""
  ELSE FormEncodeChar(SubSeq(s, 1, 1)) \o FormEncode(SubSeq(s, 2, Len(s)))

\* value.toString() of a query value that is neither null nor undefined
ValueToString(v) == Interpolate(v)

\* the entries kept by a test for a truthy value
QueryEntriesTruthy(params) ==
  SelectSeq(params, LAMBDA e : ~Falsy(e.value))

\* params is the sequence of the mapping's entries, in insertion order
QueryEntries(params) ==
  SelectSeq(params, LAMBDA e : e.value.k # "undefined")

\* URLSearchParams.toString() of the appended entries
QueryString(params) ==
  LET es == QueryEntries(params)
  IN JoinStrings([i \in 1..Len(es) |->
        FormEncode(es[i].key) \o "=" \o FormEncode(ValueToString(es[i].value))], "&")

BaseUrl == "https://api.hubapi.com"

BuildUrl(endpoint, params) ==
  BaseUrl \o endpoint \o (IF QueryString(params) # "" THEN "?" \o QueryString(params) ELSE "")

\* if (body): every object is truthy, null is not
Truthy(v) == ~Falsy(v)

NoPayload == "(none)"

\* request options that declare a JSON payload on every request
RequestOptionsAlwaysJson(apiKey, method, body) ==
  [method |-> method,
   headers |-> [Accept |-> "application/json",
                Authorization |-> "Bearer " \o Interpolate(apiKey)]
               @@ ("Content-Type" :> "application/json"),
   body |-> IF Truthy(body) THEN JSONstringify(body) ELSE NoPayload]

RequestOptions(apiKey, method, body) ==
  [method |-> method,
   headers |-> IF Truthy(body)
               THEN [Accept |-> "application/json",
                     Authorization |-> "Bearer " \o Interpolate(apiKey)]
                    @@ ("Content-Type" :> "application/json")
               ELSE [Accept |-> "application/json",
                     Authorization |-> "Bearer " \o Interpolate(apiKey)],
   body |-> IF Truthy(body) THEN JSONstringify(body) ELSE NoPayload]

(***************************************************************************)
(* makeApiRequest.  The function suspends once, at fetch: the first part   *)
(* runs up to the fetch call, the second from the settled fetch on.  A     *)
(* part ends by returning, by throwing, or by awaiting a fetch.            *)
(***************************************************************************)
Await(url, options) == [c |-> "fetch", url |-> url, options |-> options]

ConfigError == Err("Error", "HUBSPOT_ACCESS_TOKEN environment variable is not set")

\* makeApiRequest without the token check
makeApiRequestUnchecked(apiKey, endpoint, params, method, body) ==
  IF \E i \in 1..Len(params) : params[i].value.k = "null"
  THEN Throw(Err("TypeError", "Cannot read properties of null (reading 'toString')"))
  ELSE Await(BuildUrl(endpoint, params), RequestOptions(apiKey, method, body))

makeApiRequest(apiKey, endpoint, params, method, body) ==
  IF Falsy(apiKey) THEN Throw(ConfigError)
  ELSE IF \E i \in 1..Len(params) : params[i].value.k = "null"
  THEN Throw(Err("TypeError", "Cannot read properties of null (reading 'toString')"))
  ELSE Await(BuildUrl(endpoint, params), RequestOptions(apiKey, method, body))

\* what fetch settles with: a rejection, or a response with a status and a body
Rejected(e) == [c |-> "rejected", e |-> e]
Response(status, body) == [c |-> "response", status |-> status, body |-> body]
JsonBody(v) == [t |-> "json", v |-> v]
EmptyBody == [t |-> "empty"]
\* the body <html>
BadBody == [t |-> "invalid"]
\* a body whose stream ends before the body is complete: how the response
\* frames its body (content-length, chunked, or close, which is neither) and
\* the text that arrived
BrokenBody(framing, text) == [t |-> "broken", framing |-> framing, text |-> text]

ResponseOk(r) == r.status >= 200 /\ r.status <= 299

\* the text of a body that is not the JSON text of a value
BodyText(body) ==
  CASE body.t = "empty" -> ""
    [] body.t = "broken" -> body.text
    [] OTHER -> "<html>"

\* the statuses for which fetch gives the response no body, whatever the
\* server sent after the head
NullBodyStatuses == {101, 204, 205, 304}

\* response.json(): the text of the body goes through JSON.parse.  A
\* response without a body reads as the empty text.  A body that falls short
\* of its content-length fails the read; under the other framings the stream
\* just ends and the text that arrived is parsed
ResponseJson(r) ==
  IF r.status \in NullBodyStatuses THEN JSONparse("")
  ELSE IF r.body.t = "json" THEN Return(r.body.v)
  ELSE IF r.body.t = "broken" /\ r.body.framing = "content-length"
  THEN Throw(Err("TypeError", "terminated"))
  ELSE JSONparse(BodyText(r.body))

\* the continuation without the 204 branch: every 2xx body is parsed
makeApiRequestResumeNo204(settled) ==
  IF settled.c = "rejected" THEN [out |-> Throw(settled.e), read |-> FALSE]
  ELSE IF ~ResponseOk(settled)
  THEN [out |-> Return(Str("Error fetching data from HubSpot: Status " \o ToString(settled.status))),
        read |-> FALSE]
  ELSE [out |-> ResponseJson(settled), read |-> TRUE]

\* the continuation that reads the error body and throws its message
makeApiRequestResumeReadsErrorBody(settled) ==
  IF settled.c = "rejected" THEN [out |-> Throw(settled.e), read |-> FALSE]
  ELSE IF ~ResponseOk(settled)
  THEN [out |-> Throw(Err("Error",
                  IF ResponseJson(settled).c = "return" /\ HasMessage(ResponseJson(settled).v)
                  THEN Interpolate(MessageOf(ResponseJson(settled).v))
                  ELSE "Error fetching data from HubSpot: Status " \o ToString(settled.status))),
        read |-> TRUE]
  ELSE IF settled.status = 204
  THEN [out |-> Return(Str("No data returned: Status " \o ToString(settled.status))),
        read |-> FALSE]
  ELSE [out |-> ResponseJson(settled), read |-> TRUE]

\* the continuation that throws the status sentinel instead of returning it
makeApiRequestResumeThrowsStatus(settled) ==
  IF settled.c = "rejected" THEN [out |-> Throw(settled.e), read |-> FALSE]
  ELSE IF ~ResponseOk(settled)
  THEN [out |-> Throw(Err("Error", "Error fetching data from HubSpot: Status " \o ToString(settled.status))),
        read |-> FALSE]
  ELSE IF settled.status = 204
  THEN [out |-> Return(Str("No data returned: Status " \o ToString(settled.status))),
        read |-> FALSE]
  ELSE [out |-> ResponseJson(settled), read |-> TRUE]

\* the continuation that captures a failed fetch into its return value
makeApiRequestResumeCapturing(settled) ==
  IF settled.c = "rejected" THEN [out |-> Return(Str(settled.e.message)), read |-> FALSE]
  ELSE IF ~ResponseOk(settled)
  THEN [out |-> Return(Str("Error fetching data from HubSpot: Status " \o ToString(settled.status))),
        read |-> FALSE]
  ELSE IF settled.status = 204
  THEN [out |-> Return(Str("No data returned: Status " \o ToString(settled.status))),
        read |-> FALSE]
  ELSE [out |-> ResponseJson(settled), read |-> TRUE]

\* the continuation that fetches again after a server error
makeApiRequestResumeRetry(settled) ==
  IF settled.c = "rejected" THEN [out |-> Throw(settled.e), read |-> FALSE]
  ELSE IF settled.status >= 500
  THEN [out |-> Await("(retry)", [method |-> "GET"]), read |-> FALSE]
  ELSE IF ~ResponseOk(settled)
  THEN [out |-> Return(Str("Error fetching data from HubSpot: Status " \o ToString(settled.status))),
        read |-> FALSE]
  ELSE IF settled.status = 204
  THEN [out |-> Return(Str("No data returned: Status " \o ToString(settled.status))),
        read |-> FALSE]
  ELSE [out |-> ResponseJson(settled), read |-> TRUE]

\* the part after fetch settled: its completion, and whether it read the body
makeApiRequestResume(settled) ==
  IF settled.c = "rejected" THEN [out |-> Throw(settled.e), read |-> FALSE]
  ELSE IF ~ResponseOk(settled)
  THEN [out |-> Return(Str("Error fetching data from HubSpot: Status " \o ToString(settled.status))),
        read |-> FALSE]
  ELSE IF settled.status = 204
  THEN [out |-> Return(Str("No data returned: Status " \o ToString(settled.status))),
        read |-> FALSE]
  ELSE [out |-> ResponseJson(settled), read |-> TRUE]

\* the wrapper without a catch branch: the adapter's exception goes on to
\* handleEndpoint
makeApiRequestWithErrorHandlingRethrows(completion) ==
  IF completion.c = "return" THEN Return(formatResponse(completion.v))
  ELSE completion

\* the wrapper whose catch branch drops the error's message
makeApiRequestWithErrorHandlingNoMessage(completion) ==
  IF completion.c = "return" THEN Return(formatResponse(completion.v))
  ELSE Return(formatResponse(Str("Error performing request")))

\* try { formatResponse(await makeApiRequest(...)) } catch (error) { ... }
makeApiRequestWithErrorHandling(completion) ==
  IF completion.c = "return" THEN Return(formatResponse(completion.v))
  ELSE IF completion.v.k \in {"null", "undefined"}
  THEN Throw(Err("TypeError", "Cannot read properties of " \o completion.v.k \o " (reading 'message')"))
  ELSE Return(formatResponse(Str("Error performing request: " \o Interpolate(MessageOf(completion.v)))))

\* try { return await apiCall() } catch (error) { return formatResponse(error.message) }
handleEndpoint(completion) ==
  IF completion.c = "return" THEN completion
  ELSE IF completion.v.k \in {"null", "undefined"}
  THEN Throw(Err("TypeError", "Cannot read properties of " \o completion.v.k \o " (reading 'message')"))
  ELSE Return(formatResponse(MessageOf(completion.v)))

(***************************************************************************)
(* Token configuration.                                                    *)
(***************************************************************************)
\* config?.HUBSPOT_ACCESS_TOKEN
ConfigToken(config) ==
  IF config.k = "object" /\ \E i \in 1..Len(config.keys) : config.keys[i] = "HUBSPOT_ACCESS_TOKEN"
  THEN config.vals[CHOOSE i \in 1..Len(config.keys) : config.keys[i] = "HUBSPOT_ACCESS_TOKEN"]
  ELSE Undefined

\* the parameter { config } = {} of createServer: the member config of the
\* argument, of {} when no argument is passed
ConfigOf(arg) ==
  IF arg.k = "object" /\ \E i \in 1..Len(arg.keys) : arg.keys[i] = "config"
  THEN arg.vals[CHOOSE i \in 1..Len(arg.keys) : arg.keys[i] = "config"]
  ELSE Undefined

\* a || b
OrElse(a, b) == IF Truthy(a) THEN a ELSE b

\* getConfig preferring the environment to the config object
getConfigEnvFirst(config, envToken) ==
  [hubspotAccessToken |-> OrElse(envToken, ConfigToken(config))]

getConfig(config, envToken) ==
  [hubspotAccessToken |-> OrElse(ConfigToken(config), envToken)]

(***************************************************************************)
(* Tool handlers.  A handler builds the arguments of the one               *)
(* makeApiRequestWithErrorHandling call it makes: endpoint, query params,  *)
(* method and body.                                                        *)
(***************************************************************************)
\* x?.join(',')
OptJoin(x) ==
  IF x.k = "undefined" THEN Undefined
  ELSE Str(JoinStrings([i \in 1..Len(x.items) |-> x.items[i].s], ","))

Entry(key, value) == [key |-> key, value |-> value]

crm_create_company(params) ==
  [endpoint |-> "/crm/v3/objects/companies",
   params |-> <<>>,
   method |-> "POST",
   body |-> Obj(<<"properties", "associations">>, <<params.properties, params.associations>>)]

crm_get_company(params) ==
  [endpoint |-> "/crm/v3/objects/companies/" \o Interpolate(params.companyId),
   params |-> <<Entry("properties", OptJoin(params.properties)),
                Entry("associations", OptJoin(params.associations))>>,
   method |-> "GET",
   body |-> Null]

crm_archive_object(params) ==
  [endpoint |-> "/crm/v3/objects/" \o Interpolate(params.objectType) \o "/" \o Interpolate(params.objectId),
   params |-> <<>>,
   method |-> "DELETE",
   body |-> Null]

products_archive(params) ==
  [endpoint |-> "/crm/v3/objects/products/" \o Interpolate(params.productId),
   params |-> <<>>,
   method |-> "DELETE",
   body |-> Null]

crm_get_company_properties(params) ==
  [endpoint |-> "/crm/v3/properties/companies",
   params |-> <<Entry("archived", params.archived),
                Entry("properties", OptJoin(params.properties))>>,
   method |-> "GET",
   body |-> Null]

crm_batch_read_objects(params) ==
  [endpoint |-> "/crm/v3/objects/" \o Interpolate(params.objectType) \o "/batch/read",
   params |-> <<>>,
   method |-> "POST",
   body |-> Obj(<<"propertiesWithHistory", "idProperty", "inputs", "properties">>,
                <<params.propertiesWithHistory, params.idProperty,
                  Arr([i \in 1..Len(params.objectIds.items) |->
                         Obj(<<"id">>, <<params.objectIds.items[i]>>)]),
                  params.properties>>)]

products_batch_read(params) ==
  [endpoint |-> "/crm/v3/objects/products/batch/read",
   params |-> <<>>,
   method |-> "POST",
   body |-> Obj(<<"inputs">>,
                <<Arr([i \in 1..Len(params.productIds.items) |->
                         Obj(<<"id">>, <<params.productIds.items[i]>>)])>>)]

products_search(params) ==
  [endpoint |-> "/crm/v3/objects/products/search",
   params |-> <<>>,
   method |-> "POST",
   body |-> Obj(<<"filterGroups", "properties", "limit", "after", "sorts">>,
                <<params.filterGroups, params.properties, params.limit,
                  params.after, params.sorts>>)]

\* the batch create, update and archive tools: name, path template, and the
\* argument holding the id list ("" when the caller supplies inputs itself)
BatchCatalog == <<
  [name |-> "crm_batch_create_companies", ids |-> "",
   path |-> <<[lit |-> "/crm/v3/objects/companies/batch/create", arg |-> ""]>>],
  [name |-> "crm_batch_update_companies", ids |-> "",
   path |-> <<[lit |-> "/crm/v3/objects/companies/batch/update", arg |-> ""]>>],
  [name |-> "crm_batch_create_objects", ids |-> "",
   path |-> <<[lit |-> "/crm/v3/objects/", arg |-> ""], [lit |-> "", arg |-> "objectType"], [lit |-> "/batch/create", arg |-> ""]>>],
  [name |-> "crm_batch_update_objects", ids |-> "",
   path |-> <<[lit |-> "/crm/v3/objects/", arg |-> ""], [lit |-> "", arg |-> "objectType"], [lit |-> "/batch/update", arg |-> ""]>>],
  [name |-> "crm_batch_archive_objects", ids |-> "objectIds",
   path |-> <<[lit |-> "/crm/v3/objects/", arg |-> ""], [lit |-> "", arg |-> "objectType"], [lit |-> "/batch/archive", arg |-> ""]>>],
  [name |-> "crm_batch_create_associations", ids |-> "",
   path |-> <<[lit |-> "/crm/v4/associations/", arg |-> ""], [lit |-> "", arg |-> "fromObjectType"], [lit |-> "/", arg |-> ""], [lit |-> "", arg |-> "toObjectType"], [lit |-> "/batch/create", arg |-> ""]>>],
  [name |-> "crm_batch_archive_associations", ids |-> "",
   path |-> <<[lit |-> "/crm/v4/associations/", arg |-> ""], [lit |-> "", arg |-> "fromObjectType"], [lit |-> "/", arg |-> ""], [lit |-> "", arg |-> "toObjectType"], [lit |-> "/batch/archive", arg |-> ""]>>],
  [name |-> "crm_batch_create_contacts", ids |-> "",
   path |-> <<[lit |-> "/crm/v3/objects/contacts/batch/create", arg |-> ""]>>],
  [name |-> "crm_batch_update_contacts", ids |-> "",
   path |-> <<[lit |-> "/crm/v3/objects/contacts/batch/update", arg |-> ""]>>],
  [name |-> "crm_batch_create_leads", ids |-> "",
   path |-> <<[lit |-> "/crm/v3/objects/leads/batch/create", arg |-> ""]>>],
  [name |-> "crm_batch_update_leads", ids |-> "",
   path |-> <<[lit |-> "/crm/v3/objects/leads/batch/update", arg |-> ""]>>],
  [name |-> "crm_batch_create_deals", ids |-> "",
   path |-> <<[lit |-> "/crm/v3/objects/deals/batch/create", arg |-> ""]>>],
  [name |-> "crm_batch_update_deals", ids |-> "",
   path |-> <<[lit |-> "/crm/v3/objects/deals/batch/update", arg |-> ""]>>],
  [name |-> "meetings_batch_create", ids |-> "",
   path |-> <<[lit |-> "/crm/v3/objects/meetings/batch/create", arg |-> ""]>>],
  [name |-> "meetings_batch_update", ids |-> "",
   path |-> <<[lit |-> "/crm/v3/objects/meetings/batch/update", arg |-> ""]>>],
  [name |-> "meetings_batch_archive", ids |-> "meetingIds",
   path |-> <<[lit |-> "/crm/v3/objects/meetings/batch/archive", arg |-> ""]>>],
  [name |-> "notes_batch_create", ids |-> "",
   path |-> <<[lit |-> "/crm/v3/objects/notes/batch/create", arg |-> ""]>>],
  [name |-> "notes_batch_update", ids |-> "",
   path |-> <<[lit |-> "/crm/v3/objects/notes/batch/update", arg |-> ""]>>],
  [name |-> "notes_batch_archive", ids |-> "noteIds",
   path |-> <<[lit |-> "/crm/v3/objects/notes/batch/archive", arg |-> ""]>>],
  [name |-> "tasks_batch_create", ids |-> "",
   path |-> <<[lit |-> "/crm/v3/objects/tasks/batch/create", arg |-> ""]>>],
  [name |-> "tasks_batch_update", ids |-> "",
   path |-> <<[lit |-> "/crm/v3/objects/tasks/batch/update", arg |-> ""]>>],
  [name |-> "tasks_batch_archive", ids |-> "taskIds",
   path |-> <<[lit |-> "/crm/v3/objects/tasks/batch/archive", arg |-> ""]>>],
  [name |-> "calls_batch_create", ids |-> "",
   path |-> <<[lit |-> "/crm/v3/objects/calls/batch/create", arg |-> ""]>>],
  [name |-> "calls_batch_update", ids |-> "",
   path |-> <<[lit |-> "/crm/v3/objects/calls/batch/update", arg |-> ""]>>],
  [name |-> "calls_batch_archive", ids |-> "callIds",
   path |-> <<[lit |-> "/crm/v3/objects/calls/batch/archive", arg |-> ""]>>],
  [name |-> "emails_batch_create", ids |-> "",
   path |-> <<[lit |-> "/crm/v3/objects/emails/batch/create", arg |-> ""]>>],
  [name |-> "emails_batch_update", ids |-> "",
   path |-> <<[lit |-> "/crm/v3/objects/emails/batch/update", arg |-> ""]>>],
  [name |-> "emails_batch_archive", ids |-> "emailIds",
   path |-> <<[lit |-> "/crm/v3/objects/emails/batch/archive", arg |-> ""]>>],
  [name |-> "products_batch_archive", ids |-> "productIds",
   path |-> <<[lit |-> "/crm/v3/objects/products/batch/archive", arg |-> ""]>>],
  [name |-> "products_batch_create", ids |-> "",
   path |-> <<[lit |-> "/crm/v3/objects/products/batch/create", arg |-> ""]>>],
  [name |-> "products_batch_update", ids |-> "",
   path |-> <<[lit |-> "/crm/v3/objects/products/batch/update", arg |-> ""]>>]
>>

BatchNames == {BatchCatalog[i].name : i \in 1..Len(BatchCatalog)}
BatchEntry(tool) == BatchCatalog[CHOOSE i \in 1..Len(BatchCatalog) : BatchCatalog[i].name = tool]

\* the endpoint template literal of a batch tool
TemplatePath(path, params) ==
  JoinStrings([i \in 1..Len(path) |->
     IF path[i].arg = "" THEN path[i].lit ELSE Interpolate(params[path[i].arg])], "")

\* params.<ids>.map((id) => ({ id }))
MapIds(ids) == Arr([i \in 1..Len(ids.items) |-> Obj(<<"id">>, <<ids.items[i]>>)])

\* a batch handler that sends the first item only
BatchHandlerFirstOnly(tool, params) ==
  LET t == BatchEntry(tool)
      all == IF t.ids = "" THEN params.inputs ELSE MapIds(params[t.ids])
  IN [endpoint |-> TemplatePath(t.path, params),
      params |-> <<>>,
      method |-> "POST",
      body |-> Obj(<<"inputs">>, <<Arr(IF Len(all.items) = 0 THEN <<>> ELSE <<all.items[1]>>)>>)]

BatchHandler(tool, params) ==
  LET t == BatchEntry(tool)
  IN [endpoint |-> TemplatePath(t.path, params),
      params |-> <<>>,
      method |-> "POST",
      body |-> Obj(<<"inputs">>, <<IF t.ids = "" THEN params.inputs ELSE MapIds(params[t.ids])>>)]

CoreTools == {"crm_create_company", "crm_get_company", "crm_archive_object",
              "products_archive", "crm_batch_update_objects"}

Handler(tool, params) ==
  CASE tool = "crm_create_company" -> crm_create_company(params)
    [] tool = "crm_get_company" -> crm_get_company(params)
    [] tool = "crm_archive_object" -> crm_archive_object(params)
    [] tool = "products_archive" -> products_archive(params)
    [] tool = "crm_get_company_properties" -> crm_get_company_properties(params)
    [] tool = "crm_batch_read_objects" -> crm_batch_read_objects(params)
    [] tool = "products_batch_read" -> products_batch_read(params)
    [] tool = "products_search" -> products_search(params)
    [] OTHER -> BatchHandler(tool, params)

(***************************************************************************)
(* The registry createServer builds: the captured token and one tool per   *)
(* server.tool registration, in the order of registration.                 *)
(***************************************************************************)
RegisteredTools == <<
  "crm_create_company", "crm_update_company", "crm_get_company",
  "crm_search_companies", "crm_batch_create_companies",
  "crm_batch_update_companies", "crm_get_company_properties",
  "crm_create_company_property", "crm_list_objects", "crm_get_object",
  "crm_create_object", "crm_update_object", "crm_archive_object",
  "crm_search_objects", "crm_batch_create_objects", "crm_batch_read_objects",
  "crm_batch_update_objects", "crm_batch_archive_objects",
  "crm_list_association_types", "crm_get_associations",
  "crm_create_association", "crm_archive_association",
  "crm_batch_create_associations", "crm_batch_archive_associations",
  "crm_create_contact", "crm_update_contact", "crm_get_contact",
  "crm_search_contacts", "crm_batch_create_contacts",
  "crm_batch_update_contacts", "crm_get_contact_properties",
  "crm_create_contact_property", "crm_create_lead", "crm_update_lead",
  "crm_get_lead", "crm_search_leads", "crm_batch_create_leads",
  "crm_batch_update_leads", "crm_get_lead_properties",
  "crm_create_lead_property", "crm_create_deal", "crm_update_deal",
  "crm_get_deal", "crm_search_deals", "crm_batch_create_deals",
  "crm_batch_update_deals", "crm_get_deal_properties",
  "crm_create_deal_property", "meetings_list", "meetings_get",
  "meetings_create", "meetings_update", "meetings_archive",
  "meetings_search", "meetings_batch_create", "meetings_batch_update",
  "meetings_batch_archive", "notes_create", "notes_get", "notes_update",
  "notes_archive", "notes_list", "notes_search", "notes_batch_create",
  "notes_batch_read", "notes_batch_update", "notes_batch_archive",
  "tasks_create", "tasks_get", "tasks_update", "tasks_archive", "tasks_list",
  "tasks_search", "tasks_batch_create", "tasks_batch_read",
  "tasks_batch_update", "tasks_batch_archive", "engagement_details_get",
  "engagement_details_create", "engagement_details_update",
  "engagement_details_list", "engagement_details_archive",
  "engagement_details_get_associated", "calls_create", "calls_get",
  "calls_update", "calls_archive", "calls_list", "calls_search",
  "calls_batch_create", "calls_batch_read", "calls_batch_update",
  "calls_batch_archive", "emails_create", "emails_get", "emails_update",
  "emails_archive", "emails_list", "emails_search", "emails_batch_create",
  "emails_batch_read", "emails_batch_update", "emails_batch_archive",
  "communications_get_preferences", "communications_update_preferences",
  "communications_unsubscribe_contact", "communications_subscribe_contact",
  "communications_get_subscription_definitions",
  "communications_get_subscription_status",
  "communications_update_subscription_status", "products_list",
  "products_read", "products_create", "products_update", "products_archive",
  "products_search", "products_batch_archive", "products_batch_create",
  "products_batch_read", "products_batch_update"
>>

\* createServer(arg): the registry it returns
Registry(arg, envToken) ==
  [hubspotAccessToken |-> getConfig(ConfigOf(arg), envToken).hubspotAccessToken,
   tools |-> RegisteredTools]

\* the argument {} of both createServer calls of the bootstrap
EmptyConfig == Obj(<<>>, <<>>)

\* const stdioServer = createServer({})
StdioRegistry(envToken) ==
  Registry(EmptyConfig, envToken)

\* a registry for POST /mcp that leaves out the last registered tool
PostRegistryPartial(envToken) ==
  [Registry(EmptyConfig, envToken) EXCEPT !.tools = SubSeq(@, 1, Len(@) - 1)]

\* const server = createServer({}) in the POST /mcp route
PostRegistry(envToken) ==
  Registry(EmptyConfig, envToken)

\* the POST /mcp route answering from one registry built for the first request
PostRegistriesShared(regs, envToken, serial) ==
  IF regs = <<>> THEN <<PostRegistry(envToken) @@ [request |-> serial, closed |-> FALSE]>>
  ELSE regs

\* the registries of the process after the POST /mcp route has called
\* createServer for the request numbered serial; the request uses the last
PostRegistries(regs, envToken, serial) ==
  Append(regs, PostRegistry(envToken) @@ [request |-> serial, closed |-> FALSE])

\* tools/list on a registry
ListTools(registry) == registry.tools

Methods == {"ping", "tools/list"}
Transports == {"stdio", "http"}

NoAnswer == [c |-> "none"]
InternalServerError == [c |-> "http", status |-> 500]

\* the result of a protocol request served by a registry
Answer(registry, method) ==
  IF method = "ping" THEN [c |-> "result", method |-> method]
  ELSE [c |-> "result", method |-> method, tools |-> ListTools(registry)]

\* GET /health and the payload it answers with
HealthRoute == "GET /health"
HealthPayload == [status |-> "ok", server |-> "HubSpot MCP", tools |-> 116]

\* the count of tools the end-to-end test expects of tools/list
TOTAL_TOOLS == 112

\* values of process.env.PORT
Ports == {Undefined, Str(""), Str("8080")}
NoPort == [k |-> "closed"]

(***************************************************************************)
(* Inputs: schema-valid tool arguments, upstream answers, thrown values.   *)
(***************************************************************************)
SeqsUpTo(S, n) == UNION {[1..m -> S] : m \in 0..n}

UpdateItem(id, name) ==
  Obj(<<"id", "properties">>, <<Str(id), Obj(<<"name">>, <<Str(name)>>)>>)

ItemPool == {UpdateItem("1", "A"), UpdateItem("2", "B")}
IdPool == {Str("1"), Str("2")}

PathArgValues(a) ==
  CASE a = "objectType" -> {Str("companies"), Str("deals")}
    [] a = "fromObjectType" -> {Str("contacts")}
    [] OTHER -> {Str("companies")}

\* the arguments of a batch tool: its path arguments and a list of at most
\* MaxItems items (or ids)
BatchArgs(tool) ==
  LET t == BatchEntry(tool)
      listArg == IF t.ids = "" THEN "inputs" ELSE t.ids
      pathArgs == {t.path[i].arg : i \in {j \in 1..Len(t.path) : t.path[j].arg # ""}}
      lists == IF t.ids = "" THEN SeqsUpTo(ItemPool, MaxItems) ELSE SeqsUpTo(IdPool, MaxItems)
  IN {f \in [pathArgs \cup {listArg} -> {Arr(l) : l \in lists} \cup {Str("companies"), Str("deals"), Str("contacts")}] :
        /\ f[listArg].k = "array"
        /\ \A a \in pathArgs : f[a] \in PathArgValues(a)}

ToolArgs(tool) ==
  CASE tool = "crm_create_company" ->
         {[properties |-> Obj(<<"name", "domain">>, <<Str("Test Company"), Str("test.com")>>),
           associations |-> Undefined]}
    [] tool = "crm_get_company" ->
         {[companyId |-> Str("123"), properties |-> p, associations |-> Undefined] :
            p \in {Undefined, Arr(<<Str("name"), Str("domain")>>)}}
    [] tool = "crm_archive_object" ->
         {[objectType |-> Str("companies"), objectId |-> Str("123")]}
    [] tool = "products_archive" ->
         {[productId |-> Str("456")]}
    [] tool = "crm_batch_update_objects" ->
         {[objectType |-> Str("companies"),
           inputs |-> Arr(<<UpdateItem("1", "A"), UpdateItem("2", "B")>>)]}

\* tools whose arguments go into the path, the query string and the body
RequestTools == {"crm_get_company_properties", "crm_get_company", "crm_archive_object",
                 "crm_batch_read_objects", "products_batch_read", "products_search"}

\* strings z.string() accepts for an id
PathIds == {Str("123"), Str("123?archived=true"), Str("1/associations/contacts"),
            Str("../contacts/9")}

OptNames == {Undefined, Arr(<<Str("name")>>), Arr(<<Str("name"), Str("price")>>)}

RequestArgs(tool) ==
  CASE tool = "crm_get_company_properties" ->
         {[archived |-> a, properties |-> p] :
            a \in {Undefined, Bool(TRUE), Bool(FALSE)}, p \in OptNames \cup {Arr(<<>>)}}
    [] tool = "crm_get_company" ->
         {[companyId |-> id, properties |-> p, associations |-> Undefined] :
            id \in PathIds, p \in OptNames}
    [] tool = "crm_archive_object" ->
         {[objectType |-> Str("companies"), objectId |-> id] : id \in PathIds}
    [] tool = "crm_batch_read_objects" ->
         {[objectType |-> Str("products"), propertiesWithHistory |-> h, idProperty |-> k,
           objectIds |-> Arr(ids), properties |-> p] :
            h \in {Undefined, Arr(<<Str("price")>>)}, k \in {Undefined, Str("hs_sku")},
            ids \in SeqsUpTo(IdPool, MaxItems), p \in OptNames}
    [] tool = "products_batch_read" ->
         {[propertiesWithHistory |-> h, idProperty |-> k,
           productIds |-> Arr(ids), properties |-> p] :
            h \in {Arr(<<>>), Arr(<<Str("price")>>)}, k \in {Undefined, Str("hs_sku")},
            ids \in SeqsUpTo(IdPool, MaxItems), p \in OptNames \ {Undefined}}
    [] tool = "products_search" ->
         {[query |-> q, limit |-> l, after |-> Undefined, sorts |-> Undefined,
           properties |-> p, filterGroups |-> Arr(<<>>)] :
            q \in {Undefined, Str("widget")}, l \in {Undefined, Num(10)}, p \in OptNames}

\* params mappings, methods and bodies makeApiRequest may be called with
QueryKeys == <<"archived", "limit", "properties">>
QueryValues == {Undefined, Bool(FALSE), Bool(TRUE), Num(0), Num(10),
                Str(""), Str("name,domain"), Str("a b&c=d")}
ParamMappings ==
  {[i \in 1..Len(vs) |-> Entry(QueryKeys[i], vs[i])] : vs \in SeqsUpTo(QueryValues, Len(QueryKeys))}
RequestMethods == {"GET", "POST", "DELETE"}
RequestBodies == {Null, Undefined, Obj(<<>>, <<>>),
                  Obj(<<"properties">>, <<Obj(<<"name">>, <<Str("Test Company")>>)>>)}
AdapterEndpoint == "/crm/v3/properties/companies"

StatusCodes == {200, 204, 205, 403, 404, 500}

SampleBody == Obj(<<"id", "properties">>, <<Str("123"), Obj(<<"name">>, <<Str("Test Company")>>)>>)

\* the text {"id": of a body that was cut off
CutOffText == "{\"id\":"

Bodies ==
  {JsonBody(SampleBody), JsonBody(Null), EmptyBody, BadBody,
   BrokenBody("content-length", CutOffText), BrokenBody("chunked", CutOffText)}

NetworkError == Err("TypeError", "fetch failed")

\* everything a fetch can settle with
Settlements == {Rejected(NetworkError)} \cup {Response(st, b) : st \in StatusCodes, b \in Bodies}

\* what a handler passed to handleEndpoint may throw
ThrownValues == {Err("Error", "boom"), ConfigError, NetworkError,
                 Obj(<<"message">>, <<Str("custom")>>), Obj(<<"code">>, <<Num(7)>>),
                 Str("boom"), Null, Undefined}

EnvTokens == {Undefined, Str(""), Str("env-token")}
Configs == {Undefined,
            Obj(<<"HUBSPOT_ACCESS_TOKEN">>, <<Str("cfg-token")>>),
            Obj(<<"HUBSPOT_ACCESS_TOKEN">>, <<Str("")>>)}

\* arguments of createServer: none, {}, a config object passed in place of
\* the argument, and { config } for every config object
ServerArgs ==
  {Undefined, EmptyConfig, Obj(<<"HUBSPOT_ACCESS_TOKEN">>, <<Str("cfg-token")>>)}
    \cup {Obj(<<"config">>, <<config>>) : config \in Configs}

\* JSON values: what response.json() can yield and JSON.parse can return
JsonScalars == {Str("ok"), Str("123"), Num(7), Num(0), Bool(TRUE), Bool(FALSE), Null}
JsonValues ==
  JsonScalars \cup {Num(123), SampleBody, Obj(<<>>, <<>>)}
    \cup {Arr(items) : items \in SeqsUpTo({Str("ok"), Num(7), Null}, MaxItems)}
    \cup {Obj(<<"results">>, <<Arr(items)>>) : items \in SeqsUpTo({SampleBody}, MaxItems)}
    \cup {Obj(<<"value">>, <<v>>) : v \in JsonScalars}

\* an object whose member self is the object itself
CircularObject == Obj(<<"self">>, <<Circular>>)

\* what formatResponse may be handed
FormatInputs ==
  JsonValues \cup {Undefined, Str(""), Str("No data returned"), Num(-1),
                   Obj(<<"id", "gone">>, <<Str("1"), Undefined>>),
                   CircularObject, Arr(<<CircularObject>>)}

StatusCodes2xx == {200, 201, 205}

\* 2xx answers that carry a JSON body
JsonSettlements == {Response(st, JsonBody(v)) : st \in StatusCodes2xx, v \in JsonValues}

(***************************************************************************)
(* State.                                                                  *)
(***************************************************************************)
VARIABLES
  env,      \* process.env.HUBSPOT_ACCESS_TOKEN
  server,   \* the registry built by createServer and the token it captured
  calls,    \* the tool calls in flight, by slot
  last,     \* the tool call that completed most recently, with its trace
  process,    \* the running node process: its PORT and what the bootstrap set up
  registries, \* the registries createServer has built in the process, in order
  transports, \* the transports constructed in the process, in order
  requests,   \* the POST /mcp requests in flight, by slot
  answers     \* what a client last received on each transport, by method

netvars == <<process, registries, transports, requests, answers>>
vars == <<env, server, calls, last, process, registries, transports, requests, answers>>

Slots == 1..MaxCalls
Idle == [pc |-> "idle"]
NoCall == [tool |-> "(none)"]
NoRequest == [c |-> "none"]
NoSettlement == [c |-> "none"]
ThrowingHandler == "(throwing handler)"

RequestSlots == 1..MaxRequests
Down == [up |-> FALSE]

Init ==
  /\ env \in EnvTokens
  /\ server = [up |-> FALSE, hubspotAccessToken |-> Undefined]
  /\ calls = [c \in Slots |-> Idle]
  /\ last = NoCall
  /\ process = Down
  /\ registries = <<>>
  /\ transports = <<>>
  /\ requests = [r \in RequestSlots |-> Idle]
  /\ answers = [t \in Transports |-> [m \in Methods \cup {HealthRoute} |-> NoAnswer]]

\* createServer({ config }): the token is read here and captured by every handler
createServer(arg) ==
  /\ ~server.up
  /\ server' = [up |-> TRUE,
                hubspotAccessToken |-> getConfig(ConfigOf(arg), env).hubspotAccessToken]
  /\ UNCHANGED <<env, calls, last>>
  /\ UNCHANGED netvars

\* the token a handler reads process.env for on every call
TokenForCallFromEnv(registry, envToken) ==
  envToken

\* the token a handler of the registry passes to makeApiRequestWithErrorHandling:
\* the constant hubspotAccessToken of the createServer call that built it
TokenForCall(registry, envToken) ==
  registry.hubspotAccessToken

\* process.env.HUBSPOT_ACCESS_TOKEN is assigned or deleted
SetEnv(value) ==
  /\ env # value
  /\ env' = value
  /\ UNCHANGED <<server, calls, last>>
  /\ UNCHANGED netvars

\* the record of a completed call: what the adapter did and what the handler
\* handed to the protocol layer
\* the record of a call whose request is kept in one place shared by all the
\* calls in flight
CompletedSharedRequest(tool, params, apiKey, desc, nfetch, req, settled, adapter, read) ==
  [tool |-> tool, params |-> params, apiKey |-> apiKey, desc |-> desc,
   nfetch |-> nfetch,
   req |-> IF calls[1].pc = "awaitFetch" THEN calls[1].req ELSE req,
   settled |-> settled, adapter |-> adapter, read |-> read,
   result |-> handleEndpoint(makeApiRequestWithErrorHandling(adapter))]

Completed(tool, params, apiKey, desc, nfetch, req, settled, adapter, read) ==
  [tool |-> tool, params |-> params, apiKey |-> apiKey, desc |-> desc,
   nfetch |-> nfetch, req |-> req, settled |-> settled,
   adapter |-> adapter, read |-> read,
   result |-> handleEndpoint(makeApiRequestWithErrorHandling(adapter))]

\* tools/call with schema-valid arguments: the handler runs up to its fetch
CallTool(c, tool, params) ==
  /\ server.up
  /\ calls[c].pc = "idle"
  /\ LET apiKey == TokenForCall(server, env)
         desc == Handler(tool, params)
         first == makeApiRequest(apiKey, desc.endpoint, desc.params, desc.method, desc.body)
     IN IF first.c = "fetch"
        THEN /\ calls' = [calls EXCEPT ![c] =
                   [pc |-> "awaitFetch", tool |-> tool, params |-> params, apiKey |-> apiKey,
                    desc |-> desc, req |-> first, nfetch |-> 1]]
             /\ UNCHANGED last
        ELSE /\ last' = Completed(tool, params, apiKey, desc, 0, NoRequest, NoSettlement, first, FALSE)
             /\ UNCHANGED calls
  /\ UNCHANGED <<env, server>>
  /\ UNCHANGED netvars

\* await fetch(url, options) of a call in flight settles, with a rejection or
\* with the head of a response.  When the handler goes on to read the body it
\* waits again, at response.json(), and the body arrives later; otherwise it
\* runs to its end.
FetchSettles(c, settled) ==
  /\ calls[c].pc = "awaitFetch"
  /\ LET call == calls[c]
         rest == makeApiRequestResume(settled)
     IN IF rest.out.c = "fetch"
        THEN /\ calls' = [calls EXCEPT ![c].req = rest.out, ![c].nfetch = call.nfetch + 1]
             /\ UNCHANGED last
        ELSE IF rest.read
        THEN /\ calls' = [calls EXCEPT ![c] =
                   [pc |-> "awaitJson", tool |-> call.tool, params |-> call.params,
                    apiKey |-> call.apiKey, desc |-> call.desc, req |-> call.req,
                    nfetch |-> call.nfetch, status |-> settled.status]]
             /\ UNCHANGED last
        ELSE /\ last' = Completed(call.tool, call.params, call.apiKey, call.desc, call.nfetch,
                                  call.req, settled, rest.out, rest.read)
             /\ calls' = [calls EXCEPT ![c] = Idle]
  /\ UNCHANGED <<env, server>>
  /\ UNCHANGED netvars

\* await response.json() of a call settles with the body that arrived, and
\* the handler runs to its end
BodySettles(c, body) ==
  /\ calls[c].pc = "awaitJson"
  /\ LET call == calls[c]
         settled == Response(call.status, body)
         rest == makeApiRequestResume(settled)
     IN /\ last' = Completed(call.tool, call.params, call.apiKey, call.desc, call.nfetch,
                             call.req, settled, rest.out, rest.read)
        /\ calls' = [calls EXCEPT ![c] = Idle]
  /\ UNCHANGED <<env, server>>
  /\ UNCHANGED netvars

\* handleEndpoint applied to a handler function that throws
HandlerThrows(c, thrown) ==
  /\ server.up
  /\ calls[c].pc = "idle"
  /\ last' = [tool |-> ThrowingHandler, thrown |-> thrown, nfetch |-> 0,
              result |-> handleEndpoint(Throw(thrown))]
  /\ UNCHANGED <<env, server, calls>>
  /\ UNCHANGED netvars

AdapterCallTag == "(makeApiRequest)"

\* makeApiRequest(apiKey, endpoint, params, method, body) called on its own,
\* up to its fetch
AdapterCall(params, method, body) ==
  /\ server.up
  /\ last' = [tool |-> AdapterCallTag, apiKey |-> server.hubspotAccessToken,
              params |-> params, method |-> method, body |-> body,
              first |-> makeApiRequest(server.hubspotAccessToken, AdapterEndpoint,
                                       params, method, body)]
  /\ UNCHANGED <<env, server, calls>>
  /\ UNCHANGED netvars

FormatterCall == "(formatResponse)"

\* formatResponse(data) called on its own
Format(data) ==
  /\ last' = [tool |-> FormatterCall, data |-> data, result |-> formatResponseCall(data)]
  /\ UNCHANGED <<env, server, calls>>
  /\ UNCHANGED netvars

\* node dist/index.js is started with PORT = port and runs the bootstrap:
\* with a PORT the express app listens on it, without one a registry is built
\* and connected to the stdio transport
Start(port) ==
  /\ ~process.up
  /\ IF Truthy(port)
     THEN /\ process' = [up |-> TRUE, PORT |-> port, stdio |-> 0,
                         listening |-> OrElse(port, Num(3000)), posts |-> 0]
          /\ registries' = <<>>
          /\ transports' = <<>>
     ELSE /\ process' = [up |-> TRUE, PORT |-> port, stdio |-> 1,
                         listening |-> NoPort, posts |-> 0]
          /\ registries' = <<StdioRegistry(env) @@ [request |-> 0, closed |-> FALSE]>>
          /\ transports' = <<[kind |-> "stdio", registry |-> 1, closed |-> FALSE]>>
  /\ UNCHANGED <<env, server, calls, last, requests, answers>>

\* a ping or tools/list request on the stdio pipe of the process
StdioRequest(method) ==
  /\ process.up
  /\ process.stdio # 0
  /\ answers' = [answers EXCEPT !["stdio"][method] = Answer(registries[process.stdio], method)]
  /\ UNCHANGED <<env, server, calls, last, process, registries, transports, requests>>

\* app.post("/mcp") up to its first await: createServer({}), a new stateless
\* transport, and the call server.connect(transport); the request takes the
\* first free slot
Post(r, method) ==
  /\ process.up
  /\ process.listening # NoPort
  /\ requests[r].pc = "idle"
  /\ \A q \in 1..(r - 1) : requests[q].pc # "idle"
  /\ process.posts < MaxPosts
  /\ LET serial == process.posts + 1
         regs == PostRegistries(registries, env, serial)
     IN /\ process' = [process EXCEPT !.posts = serial]
        /\ registries' = regs
        /\ transports' = Append(transports, [kind |-> "http", sessionIdGenerator |-> Undefined,
                                             registry |-> 0, closed |-> FALSE])
        /\ requests' = [requests EXCEPT ![r] =
                          [pc |-> "connecting", method |-> method, serial |-> serial,
                           registry |-> Len(regs), transport |-> Len(transports) + 1,
                           headersSent |-> FALSE, written |-> <<>>, gone |-> FALSE]]
  /\ UNCHANGED <<env, server, calls, last, answers>>

\* await server.connect(transport) resolves; transport.handleRequest is called
Connected(r) ==
  /\ requests[r].pc = "connecting"
  /\ transports' = [transports EXCEPT ![requests[r].transport].registry = requests[r].registry]
  /\ requests' = [requests EXCEPT ![r].pc = "handling"]
  /\ UNCHANGED <<env, server, calls, last, process, registries, answers>>

\* the remote peer closes the connection while the route is still awaiting:
\* res emits close before any close listener is registered
PeerCloses(r) ==
  /\ requests[r].pc \in {"connecting", "handling"}
  /\ ~requests[r].gone
  /\ requests' = [requests EXCEPT ![r].gone = TRUE]
  /\ UNCHANGED <<env, server, calls, last, process, registries, transports, answers>>

\* transport.handleRequest writes the response head before it settles
WriteHead(r) ==
  /\ requests[r].pc = "handling"
  /\ ~requests[r].headersSent
  /\ ~requests[r].gone
  /\ requests' = [requests EXCEPT ![r].headersSent = TRUE, ![r].written = <<200>>]
  /\ UNCHANGED <<env, server, calls, last, process, registries, transports, answers>>

\* await transport.handleRequest(req, res, req.body) resolves: the request was
\* served by the registry of this request, and res.on('close') registers the
\* listener; on a response that has already closed the listener never runs
Handled(r) ==
  /\ requests[r].pc = "handling"
  /\ IF requests[r].gone
     THEN /\ requests' = [requests EXCEPT ![r] = Idle]
          /\ UNCHANGED answers
     ELSE /\ answers' = [answers EXCEPT !["http"][requests[r].method] =
                           Answer(registries[requests[r].registry], requests[r].method)]
          /\ requests' = [requests EXCEPT ![r].pc = "open", ![r].headersSent = TRUE,
                                          ![r].written = <<200>>]
  /\ UNCHANGED <<env, server, calls, last, process, registries, transports>>

\* res emits close: transport.close() and server.close()
ResponseCloses(r) ==
  /\ requests[r].pc = "open"
  /\ transports' = [transports EXCEPT ![requests[r].transport].closed = TRUE]
  /\ registries' = [registries EXCEPT ![requests[r].registry].closed = TRUE]
  /\ requests' = [requests EXCEPT ![r] = Idle]
  /\ UNCHANGED <<env, server, calls, last, process, answers>>

\* a catch block that answers 500 whatever was sent before
CatchWritesAlways(request) ==
  Append(request.written, 500)

\* the catch block: what has been written to res after it
CatchWrites(request) ==
  IF ~request.headersSent /\ ~request.gone THEN Append(request.written, 500)
  ELSE request.written

\* server.connect or transport.handleRequest throws: the catch block answers
\* 500 unless the response headers were already sent, and closes nothing; the
\* route returns without a close listener
RequestFails(r) ==
  /\ requests[r].pc \in {"connecting", "handling"}
  /\ answers' = IF requests[r].headersSent \/ requests[r].gone THEN answers
                ELSE [answers EXCEPT !["http"][requests[r].method] = InternalServerError]
  /\ requests' = [requests EXCEPT ![r].pc = "failed",
                                  ![r].headersSent = requests[r].headersSent \/ ~requests[r].gone,
                                  ![r].written = CatchWrites(requests[r])]
  /\ UNCHANGED <<env, server, calls, last, process, registries, transports>>

\* the response of a failed request ends; nothing listens for its close
ResponseGone(r) ==
  /\ requests[r].pc = "failed"
  /\ requests' = [requests EXCEPT ![r] = Idle]
  /\ UNCHANGED <<env, server, calls, last, process, registries, transports, answers>>

\* GET /health
Health ==
  /\ process.up
  /\ process.listening # NoPort
  /\ answers' = [answers EXCEPT !["http"][HealthRoute] = [c |-> "json", body |-> HealthPayload]]
  /\ UNCHANGED <<env, server, calls, last, process, registries, transports, requests>>

\* the process exits; what clients received stays with them
Stop ==
  /\ process.up
  /\ process' = Down
  /\ registries' = <<>>
  /\ transports' = <<>>
  /\ requests' = [r \in RequestSlots |-> Idle]
  /\ UNCHANGED <<env, server, calls, last, answers>>

\* calls on a registry one after another, each through both of its waits;
\* calls in flight at once are the subject of SpecIsolation
Next ==
  \/ \E arg \in ServerArgs : createServer(arg)
  \/ /\ \A d \in Slots : calls[d].pc = "idle"
     /\ \E c \in Slots, tool \in CoreTools : \E params \in ToolArgs(tool) :
           CallTool(c, tool, params)
  \/ \E c \in Slots, settled \in Settlements : FetchSettles(c, settled)
  \/ \E c \in Slots, body \in Bodies : BodySettles(c, body)
  \/ \E c \in Slots, thrown \in ThrownValues : HandlerThrows(c, thrown)

Spec == Init /\ [][Next]_vars

\* the first call on a registry, over every batch create, update and archive
\* tool and every list of at most MaxItems items
NextBatch ==
  \/ \E arg \in ServerArgs : createServer(arg)
  \/ /\ last = NoCall
     /\ \E tool \in BatchNames : \E params \in BatchArgs(tool) : CallTool(1, tool, params)
  \/ \E settled \in Settlements : FetchSettles(1, settled)
  \/ \E body \in Bodies : BodySettles(1, body)

SpecBatch == Init /\ [][NextBatch]_vars

\* one registry and its first call while the environment changes
NextConfig ==
  \/ \E arg \in ServerArgs : createServer(arg)
  \/ \E value \in EnvTokens : SetEnv(value)
  \/ /\ last = NoCall
     /\ \E tool \in CoreTools : \E params \in ToolArgs(tool) : CallTool(1, tool, params)
  \/ \E settled \in Settlements : FetchSettles(1, settled)
  \/ \E body \in Bodies : BodySettles(1, body)

SpecConfig == Init /\ [][NextConfig]_vars

\* the process, its transports and the protocol requests on them
NextNet ==
  \/ \E port \in Ports : Start(port)
  \/ \E method \in Methods : StdioRequest(method)
  \/ \E r \in RequestSlots, method \in Methods : Post(r, method)
  \/ \E r \in RequestSlots : Connected(r)
  \/ \E r \in RequestSlots : Handled(r)
  \/ \E r \in RequestSlots : ResponseCloses(r)
  \/ \E r \in RequestSlots : RequestFails(r)
  \/ \E r \in RequestSlots : ResponseGone(r)
  \/ Stop

SpecNet == Init /\ [][NextNet]_vars

\* the express app of one process: GET /health and the POST /mcp route with
\* every way a request can end
NextRoute ==
  \/ \E port \in Ports : Start(port)
  \/ \E r \in RequestSlots : Post(r, "ping")
  \/ \E r \in RequestSlots : Connected(r)
  \/ \E r \in RequestSlots : PeerCloses(r)
  \/ \E r \in RequestSlots : WriteHead(r)
  \/ \E r \in RequestSlots : Handled(r)
  \/ \E r \in RequestSlots : ResponseCloses(r)
  \/ \E r \in RequestSlots : RequestFails(r)
  \/ \E r \in RequestSlots : ResponseGone(r)
  \/ Health

SpecRoute == Init /\ [][NextRoute]_vars

\* calls of two tools in flight at once on one registry, under every
\* interleaving of their requests and responses
IsolationTools == {"crm_get_company", "crm_archive_object"}

\* what await fetch settles with when the body comes apart from the head: a
\* rejection, or the head of a response of any status, its body still to
\* arrive (and never read unless response.json() is called)
HeadSettlements ==
  {Rejected(NetworkError)} \cup {Response(st, EmptyBody) : st \in StatusCodes}

NextIsolation ==
  \/ \E arg \in ServerArgs : createServer(arg)
  \/ \E c \in Slots, tool \in IsolationTools : \E params \in ToolArgs(tool) :
        CallTool(c, tool, params)
  \/ \E c \in Slots, settled \in HeadSettlements : FetchSettles(c, settled)
  \/ \E c \in Slots, body \in Bodies : BodySettles(c, body)

SpecIsolation == Init /\ [][NextIsolation]_vars

\* the first makeApiRequest call with a registry's token, over params
\* mappings, methods and bodies, on its own or from crm_get_company_properties
NextAdapter ==
  \/ \E arg \in ServerArgs : createServer(arg)
  \/ /\ last = NoCall
     /\ calls[1].pc = "idle"
     /\ \E params \in ParamMappings, method \in RequestMethods, body \in RequestBodies :
           AdapterCall(params, method, body)
  \/ /\ last = NoCall
     /\ \E params \in RequestArgs("crm_get_company_properties") :
           CallTool(1, "crm_get_company_properties", params)
  \/ \E settled \in Settlements : FetchSettles(1, settled)
  \/ \E body \in Bodies : BodySettles(1, body)

SpecAdapter == Init /\ [][NextAdapter]_vars

\* the first call on a registry, over the tools of RequestTools
NextRequest ==
  \/ \E arg \in ServerArgs : createServer(arg)
  \/ /\ last = NoCall
     /\ \E tool \in RequestTools : \E params \in RequestArgs(tool) : CallTool(1, tool, params)
  \/ \E settled \in Settlements : FetchSettles(1, settled)
  \/ \E body \in Bodies : BodySettles(1, body)

SpecRequest == Init /\ [][NextRequest]_vars

\* formatResponse over every input
NextFormat == \E data \in FormatInputs : Format(data)

SpecFormat == Init /\ [][NextFormat]_vars

\* the first call on a registry, answered 2xx with a JSON body
NextRoundTrip ==
  \/ \E arg \in ServerArgs : createServer(arg)
  \/ /\ last = NoCall
     /\ \E tool \in CoreTools : \E params \in ToolArgs(tool) : CallTool(1, tool, params)
  \/ \E settled \in JsonSettlements : FetchSettles(1, settled)
  \/ \E settled \in JsonSettlements : BodySettles(1, settled.body)

SpecRoundTrip == Init /\ [][NextRoundTrip]_vars

(***************************************************************************)
(* Properties.                                                             *)
(***************************************************************************)
Contains(text, part) ==
  \E i \in 1..(Len(text) - Len(part) + 1) : SubSeq(text, i, i + Len(part) - 1) = part

EndsWith(text, part) ==
  Len(text) >= Len(part) /\ SubSeq(text, Len(text) - Len(part) + 1, Len(text)) = part

\* the last completed call was a tool call (a registered handler ran)
LastIsToolCall == last.tool \notin {NoCall.tool, ThrowingHandler}
LastAnswered == LastIsToolCall /\ last.settled.c = "response"

\* a normal tool-call response: one content item of type text and nothing else
IsEnvelope(v) ==
  /\ DOMAIN v = {"content"}
  /\ Len(v.content) = 1
  /\ DOMAIN v.content[1] = {"type", "text"}
  /\ v.content[1].type = "text"

TextOf(completion) == completion.v.content[1].text

\* C1: handleEndpoint, given a handler function that throws (whatever the
\* thrown value), resolves and never rejects, with a normal envelope whose
\* text contains the thrown error's message.
NoThrowBoundary ==
  last.tool = ThrowingHandler =>
    /\ last.result.c = "return"
    /\ IsEnvelope(last.result.v)
    /\ (HasMessage(last.thrown) /\ MessageOf(last.thrown).k = "string"
          => Contains(TextOf(last.result), MessageOf(last.thrown).s))

\* C2: every outcome of a tool call (2xx with a body, 204, non-2xx, missing
\* token, network failure, body parse failure) reaches the protocol layer as
\* a normal response {content: [one text item]} with no error flag or other
\* field.
FlatteningInvariant ==
  LastIsToolCall => last.result.c = "return" /\ IsEnvelope(last.result.v)

FlatteningWitness ==
  /\ LastIsToolCall
  /\ last.settled = Response(200, BadBody)
  /\ last.adapter.c = "throw"
  /\ last.result.c = "return"
  /\ IsEnvelope(last.result.v)

\* C3: on an upstream 204 makeApiRequest returns the text
\* "No data returned: Status 204" without reading the body, and the
\* envelope text of the tool call is exactly that string.
Upstream204 ==
  LastAnswered /\ last.settled.status = 204 =>
    /\ last.adapter = Return(Str("No data returned: Status 204"))
    /\ ~last.read
    /\ last.result.c = "return"
    /\ TextOf(last.result) = "No data returned: Status 204"

Upstream204Witness ==
  /\ last.tool \in {"crm_archive_object", "products_archive"}
  /\ last.settled = Response(204, EmptyBody)
  /\ TextOf(last.result) = "No data returned: Status 204"

\* C4: for every upstream status N outside 2xx makeApiRequest returns
\* "Error fetching data from HubSpot: Status N", does not throw and does not
\* read the body; the envelope text is that sentinel and the call resolves.
UpstreamNon2xx ==
  LastAnswered /\ (last.settled.status < 200 \/ last.settled.status > 299) =>
    /\ last.adapter.c = "return"
    /\ last.adapter.v = Str("Error fetching data from HubSpot: Status " \o ToString(last.settled.status))
    /\ ~last.read
    /\ last.result.c = "return"
    /\ TextOf(last.result) = last.adapter.v.s

UpstreamNon2xxWitness ==
  /\ last.tool = "crm_get_company"
  /\ last.settled = Response(404, JsonBody(SampleBody))
  /\ TextOf(last.result) = "Error fetching data from HubSpot: Status 404"

\* C5 as stated: when the upstream answers 403 the caller sees the text
\* "Error performing request: Error fetching data from HubSpot: Status 403".
Forbidden403Prefixed ==
  LastAnswered /\ last.settled.status = 403 =>
    TextOf(last.result) = "Error performing request: Error fetching data from HubSpot: Status 403"

\* C5 amended: when the upstream answers 403 the caller sees the text
\* "Error fetching data from HubSpot: Status 403", without the prefix
\* "Error performing request: ".
Forbidden403Text ==
  LastAnswered /\ last.settled.status = 403 =>
    /\ last.result.c = "return"
    /\ TextOf(last.result) = "Error fetching data from HubSpot: Status 403"
    /\ ~Contains(TextOf(last.result), "Error performing request")

Forbidden403Witness ==
  /\ LastAnswered
  /\ last.settled.status = 403
  /\ TextOf(last.result) = "Error fetching data from HubSpot: Status 403"

\* C6: with an empty or missing access token makeApiRequest fails with the
\* configuration error before any fetch: such a call makes zero outbound
\* requests, and no call in flight has an empty token.
AuthPrecondition ==
  /\ LastIsToolCall /\ Falsy(last.apiKey) =>
       /\ last.adapter = Throw(ConfigError)
       /\ last.nfetch = 0
       /\ last.req = NoRequest
  /\ \A c \in Slots : calls[c].pc = "awaitFetch" => ~Falsy(calls[c].apiKey)

AuthPreconditionWitness ==
  /\ LastIsToolCall
  /\ last.apiKey = Str("")
  /\ last.nfetch = 0
  /\ last.adapter.c = "throw"

\* C7: a tool call made while the access token is unset resolves with an
\* envelope whose text says the token is not configured.
MissingTokenOutcome ==
  LastIsToolCall /\ Falsy(last.apiKey) =>
    /\ last.result.c = "return"
    /\ IsEnvelope(last.result.v)
    /\ EndsWith(TextOf(last.result), "HUBSPOT_ACCESS_TOKEN environment variable is not set")

MissingTokenWitness ==
  /\ LastIsToolCall
  /\ env = Undefined
  /\ last.apiKey = Undefined
  /\ TextOf(last.result) =
       "Error performing request: HUBSPOT_ACCESS_TOKEN environment variable is not set"

\* C8 as stated: the only exception makeApiRequest throws is the
\* configuration error for a missing token; a network failure and an
\* unparsable 2xx body are captured into its return value.
OnlyConfigErrorThrown ==
  LastIsToolCall /\ last.adapter.c = "throw" =>
    Falsy(last.apiKey) /\ last.adapter.v = ConfigError

\* the 2xx answers whose body response.json() cannot read or parse: those
\* whose body is not a complete JSON text, and the 205 answers, which reach
\* the program without a body
Unparsable(settled) ==
  /\ settled.c = "response"
  /\ ResponseOk(settled)
  /\ settled.status # 204
  /\ settled.status = 205 \/ settled.body.t # "json"

\* C8 amended: in a tool call makeApiRequest throws in exactly three cases:
\* the configuration error for a missing token, the rejection of fetch
\* (network failure), and the failure of response.json() on a 2xx answer
\* other than 204 whose body is empty, not JSON or cut off, or whose status
\* is 205 (no body reaches the program).  Every status outcome (non-2xx,
\* 204) is returned,
\* and what it throws is caught by makeApiRequestWithErrorHandling.
AdapterThrows ==
  LastIsToolCall =>
    /\ last.adapter.c = "throw" <=>
         \/ Falsy(last.apiKey)
         \/ last.settled.c = "rejected"
         \/ Unparsable(last.settled)
    /\ Falsy(last.apiKey) => last.adapter = Throw(ConfigError)
    /\ last.settled.c = "rejected" => last.adapter = Throw(last.settled.e)
    /\ Unparsable(last.settled) =>
         /\ last.adapter.c = "throw"
         /\ last.adapter.v.name =
              (IF /\ last.settled.status # 205
                  /\ last.settled.body.t = "broken"
                  /\ last.settled.body.framing = "content-length"
               THEN "TypeError" ELSE "SyntaxError")
    /\ last.adapter.c = "throw" =>
         /\ last.result.c = "return"
         /\ TextOf(last.result) = "Error performing request: " \o last.adapter.v.message

AdapterThrowsWitness ==
  /\ LastIsToolCall
  /\ last.settled = Response(205, JsonBody(SampleBody))
  /\ last.adapter = Throw(Err("SyntaxError", "Unexpected end of JSON input"))
  /\ TextOf(last.result) = "Error performing request: Unexpected end of JSON input"

\* C9: a tool call that has an access token issues exactly one outbound
\* request whatever the outcome: no retry, no follow-up request.
SingleAttempt ==
  /\ LastIsToolCall /\ ~Falsy(last.apiKey) => last.nfetch = 1 /\ last.req.c = "fetch"
  /\ \A c \in Slots : calls[c].pc \in {"awaitFetch", "awaitJson"} => calls[c].nfetch = 1

SingleAttemptWitness ==
  /\ LastIsToolCall
  /\ last.apiKey = Str("env-token")
  /\ last.settled = Response(500, BadBody)
  /\ last.nfetch = 1

\* the operation a batch tool is named after
BatchOp(tool) ==
  IF Contains(tool, "create") THEN "create"
  ELSE IF Contains(tool, "update") THEN "update"
  ELSE "archive"

\* the list the caller supplied to a batch tool
SuppliedItems(tool, params) ==
  IF BatchEntry(tool).ids = "" THEN params.inputs.items ELSE params[BatchEntry(tool).ids].items

\* one request of a batch call: a POST to the tool's batch path whose body
\* is {inputs: [...]} with one entry per supplied item, in the caller's order
WrapsBatch(tool, params, desc, req, nfetch) ==
  LET items == SuppliedItems(tool, params)
  IN /\ nfetch = 1
     /\ req.options.method = "POST"
     /\ EndsWith(req.url, "/batch/" \o BatchOp(tool))
     /\ req.url = BaseUrl \o desc.endpoint
     /\ desc.body.k = "object"
     /\ desc.body.keys = <<"inputs">>
     /\ desc.body.vals[1].k = "array"
     /\ Len(desc.body.vals[1].items) = Len(items)
     /\ \A i \in 1..Len(items) :
          desc.body.vals[1].items[i] =
            IF BatchEntry(tool).ids = "" THEN items[i] ELSE Obj(<<"id">>, <<items[i]>>)
     /\ req.options.body = JSONstringify(desc.body)

\* C10: a call of a batch create, update or archive tool with N items (and
\* a token) issues exactly one POST to the batch path with body
\* {inputs: [...]} of exactly N entries in the caller's order, entry i being
\* {id: ids[i]} for the id-list tools; it never fans out into N requests.
BatchWrapping ==
  /\ LastIsToolCall /\ last.tool \in BatchNames /\ ~Falsy(last.apiKey) =>
       WrapsBatch(last.tool, last.params, last.desc, last.req, last.nfetch)
  /\ calls[1].pc = "awaitFetch" /\ calls[1].tool \in BatchNames =>
       WrapsBatch(calls[1].tool, calls[1].params, calls[1].desc, calls[1].req, calls[1].nfetch)

BatchWrappingWitness ==
  /\ last.tool = "crm_batch_archive_objects"
  /\ last.params.objectIds = Arr(<<Str("2"), Str("1")>>)
  /\ last.nfetch = 1
  /\ last.req.url = "https://api.hubapi.com/crm/v3/objects/deals/batch/archive"
  /\ last.req.options.body = "{\"inputs\":[{\"id\":\"2\"},{\"id\":\"1\"}]}"

\* C12: for a tool call answered by a 2xx response with a JSON body B (any
\* JSON value), JSON-parsing the envelope text yields a value equal to B.
JsonAnswered ==
  /\ LastAnswered
  /\ ResponseOk(last.settled)
  /\ last.settled.status # 204
  /\ last.settled.body.t = "json"

RoundTrip ==
  JsonAnswered =>
    /\ last.result.c = "return"
    /\ JSONparse(TextOf(last.result)) = Return(last.settled.body.v)

\* C12 (amended): for a 2xx status other than 204 and 205 the round trip
\* holds for a body that is an object, an array, a number or a boolean; the
\* text of a string body is the string itself and the text of a null body is
\* "No data returned".  A 205 response reaches the program without the body
\* the server sent, and the text reports the failed parse.
RoundTripStructured ==
  JsonAnswered =>
    /\ last.result.c = "return"
    /\ LET B == last.settled.body.v
           text == TextOf(last.result)
       IN IF last.settled.status = 205
          THEN text = "Error performing request: Unexpected end of JSON input"
          ELSE /\ B.k \in {"object", "array", "number", "boolean"}
                    => JSONparse(text) = Return(B)
               /\ B.k = "string" => text = B.s
               /\ B.k = "null" => text = "No data returned"

RoundTripWitness ==
  /\ JsonAnswered
  /\ last.settled.status = 201
  /\ last.settled.body.v = SampleBody
  /\ TextOf(last.result) = "{\"id\":\"123\",\"properties\":{\"name\":\"Test Company\"}}"
  /\ JSONparse(TextOf(last.result)) = Return(SampleBody)

\* C13: for every input among string, null, undefined, object, array, number
\* and boolean, formatResponse never throws and returns an envelope with
\* exactly one content item of type text.
FormatterTotality ==
  last.tool = FormatterCall =>
    /\ last.result.c = "return"
    /\ IsEnvelope(last.result.v)

\* C14: the text of formatResponse is the input itself for a string, "No data
\* returned" for null or undefined, the JSON serialization for an object or
\* array, and the string conversion for any other value.
FormatterMapping ==
  last.tool = FormatterCall /\ last.result.c = "return" =>
    LET data == last.data
        text == TextOf(last.result)
    IN /\ IsEnvelope(last.result.v)
       /\ data.k = "string" => text = data.s
       /\ data.k \in {"null", "undefined"} => text = "No data returned"
       /\ data.k \in {"object", "array"} =>
            /\ text = JSONstringify(data)
            /\ JSONparse(text).c = "return"
       /\ data.k = "number" => text = ToString(data.n)
       /\ data.k = "boolean" => text = (IF data.b THEN "true" ELSE "false")
       /\ data = Arr(<<Str("ok"), Num(7)>>) => text = "[\"ok\",7]"
       /\ data = Obj(<<"value">>, <<Bool(FALSE)>>) => text = "{\"value\":false}"

FormatterMappingWitness ==
  /\ last.tool = FormatterCall
  /\ last.data = SampleBody
  /\ last.result.c = "return"
  /\ TextOf(last.result) = "{\"id\":\"123\",\"properties\":{\"name\":\"Test Company\"}}"

\* C18: createServer uses the access token of the config object whenever the
\* config object supplies one (a non-empty value), and the value of the
\* process environment only otherwise.
ConfigPrecedence ==
  [][\A arg \in ServerArgs :
       createServer(arg) =>
         server'.hubspotAccessToken =
           (IF Truthy(ConfigToken(ConfigOf(arg))) THEN ConfigToken(ConfigOf(arg)) ELSE env)]_vars

ConfigPrecedenceWitness ==
  /\ server.up
  /\ server.hubspotAccessToken = Str("cfg-token")
  /\ env = Str("env-token")
  /\ calls[1].pc = "awaitFetch"
  /\ calls[1].req.options.headers.Authorization = "Bearer cfg-token"

\* C19: the access token is resolved once, when createServer runs; a later
\* change of the environment leaves the token of the registry, and the token
\* every later tool call on it uses, unchanged.
UsesCapturedToken ==
  /\ \A c \in Slots : calls[c].pc \in {"awaitFetch", "awaitJson"} =>
       /\ calls[c].apiKey = server.hubspotAccessToken
       /\ calls[c].req.options.headers.Authorization
            = "Bearer " \o Interpolate(server.hubspotAccessToken)
  /\ LastIsToolCall => last.apiKey = server.hubspotAccessToken

TokenReadOnce ==
  /\ []UsesCapturedToken
  /\ [][server.up => server' = server]_vars

TokenReadOnceWitness ==
  /\ server.up
  /\ env = Str("")
  /\ calls[1].pc = "awaitFetch"
  /\ calls[1].req.options.headers.Authorization = "Bearer env-token"

\* the tools/list answer last received on a transport, if any
Listed(t) == answers[t]["tools/list"]
HasList(t) == Listed(t).c = "result"
NamesOf(tools) == {tools[i] : i \in 1..Len(tools)}

\* C15: tools/list over the stdio transport and tools/list over the HTTP
\* transport return the same set of tools, with the same count.
IdenticalToolSets ==
  HasList("stdio") /\ HasList("http") =>
    /\ NamesOf(Listed("stdio").tools) = NamesOf(Listed("http").tools)
    /\ Len(Listed("stdio").tools) = Len(Listed("http").tools)

IdenticalToolSetsWitness ==
  /\ HasList("stdio")
  /\ HasList("http")
  /\ "crm_create_company" \in NamesOf(Listed("http").tools)
  /\ "products_batch_update" \in NamesOf(Listed("stdio").tools)

\* C16: tools/list returns exactly the tools registered by createServer, one
\* entry per server.tool registration with none missing or duplicated, and
\* their count is the TOTAL_TOOLS the end-to-end test pins.
ToolCountPinned ==
  \A t \in Transports :
    HasList(t) =>
      /\ Listed(t).tools = RegisteredTools
      /\ Cardinality(NamesOf(Listed(t).tools)) = Len(Listed(t).tools)
      /\ Len(Listed(t).tools) = TOTAL_TOOLS

\* C17: a started server process answers on its stdio pipe and, at the same
\* time, on HTTP POST /mcp at port PORT, or 3000 when PORT is unset.
BothTransports ==
  process.up =>
    /\ process.stdio # 0
    /\ process.listening = OrElse(process.PORT, Num(3000))

\* C20: in network mode every POST /mcp builds its own registry with one
\* createServer call and binds it to its own transport; no registry and no
\* transport is used by two requests, also when requests overlap.
Active(r) == requests[r].pc # "idle"

FreshRegistryPerRequest ==
  /\ process.up /\ process.listening # NoPort =>
       /\ Len(registries) = process.posts
       /\ Len(transports) = process.posts
  /\ \A r \in RequestSlots : Active(r) =>
       /\ registries[requests[r].registry].request = requests[r].serial
       /\ transports[requests[r].transport].kind = "http"
       /\ transports[requests[r].transport].sessionIdGenerator = Undefined
       /\ transports[requests[r].transport].registry \in {0, requests[r].registry}
       /\ ~registries[requests[r].registry].closed
       /\ ~transports[requests[r].transport].closed
  /\ \A r1, r2 \in RequestSlots : Active(r1) /\ Active(r2) /\ r1 # r2 =>
       /\ requests[r1].registry # requests[r2].registry
       /\ requests[r1].transport # requests[r2].transport

FreshRegistryWitness ==
  /\ Active(1)
  /\ Active(2)
  /\ requests[1].pc = "handling"
  /\ requests[2].pc = "open"
  /\ requests[1].registry # requests[2].registry
  /\ process.posts = MaxPosts

\* the response of the POST /mcp request numbered serial is gone: the request
\* was accepted and no longer occupies a slot
ResponseIsGone(serial) ==
  /\ serial >= 1
  /\ \A r \in RequestSlots : Active(r) => requests[r].serial # serial

\* C21: once the HTTP response of a POST /mcp request is gone (normal
\* completion, the peer closing mid-request, or request handling having
\* thrown), the transport and the registry built for it are closed.
TeardownAfterResponse ==
  process.up /\ process.listening # NoPort =>
    \A i \in 1..Len(registries) :
      ResponseIsGone(registries[i].request) =>
        /\ registries[i].closed
        /\ transports[i].closed

\* C27: GET /health answers {status: "ok", server: "HubSpot MCP", tools: 116}
\* without building a registry, and the tools number equals the number of
\* tools createServer registers.
HealthConsistent ==
  answers["http"][HealthRoute].c = "json" =>
    /\ answers["http"][HealthRoute].body = HealthPayload
    /\ answers["http"][HealthRoute].body.tools = Len(RegisteredTools)

\* C28: when connecting the transport or handling the request throws, the
\* route answers 500 exactly when no response headers had been sent, writes
\* nothing further when they had, and no request gets two responses.
OneResponse ==
  \A r \in RequestSlots : Active(r) =>
    /\ Len(requests[r].written) <= 1
    /\ requests[r].headersSent <=> requests[r].written # <<>>
    /\ requests[r].pc = "failed" => Len(requests[r].written) = 1

FailureHandling ==
  /\ []OneResponse
  /\ [][\A r \in RequestSlots :
          RequestFails(r) =>
            /\ requests'[r].pc = "failed"
            /\ ~requests[r].headersSent => requests'[r].written = <<500>>
            /\ requests[r].headersSent => requests'[r].written = requests[r].written]_vars

AtMostOneResponse ==
  \A r \in RequestSlots : Active(r) =>
    /\ Len(requests[r].written) <= 1
    /\ requests[r].headersSent <=> requests[r].written # <<>>
    /\ requests[r].pc = "failed" /\ ~requests[r].gone => Len(requests[r].written) = 1

\* C28 (amended): when connecting the transport or handling the request
\* throws, the route answers 500 exactly when no response headers had been
\* sent and the peer has not closed the connection; when the headers had been
\* sent it writes nothing further, on a response the peer has closed nothing
\* is written at all, and no request gets two responses.
FailureHandlingOpen ==
  /\ []AtMostOneResponse
  /\ [][\A r \in RequestSlots :
          RequestFails(r) =>
            /\ requests'[r].pc = "failed"
            /\ ~requests[r].headersSent /\ ~requests[r].gone
                 => requests'[r].written = <<500>>
            /\ requests[r].headersSent \/ requests[r].gone
                 => requests'[r].written = requests[r].written]_vars

FailureHandlingWitness ==
  /\ requests[1].pc = "failed"
  /\ requests[1].gone
  /\ requests[1].written = <<>>
  /\ requests[2].pc = "failed"
  /\ ~requests[2].gone
  /\ requests[2].written = <<500>>

(***************************************************************************)
(* Reading a URL back: what the upstream server sees of a request.         *)
(***************************************************************************)
\* the index of the first character of text that is one of chars, or 0
FirstOf(text, chars) ==
  IF \E i \in 1..Len(text) : SubSeq(text, i, i) \in chars
  THEN CHOOSE i \in 1..Len(text) :
         /\ SubSeq(text, i, i) \in chars
         /\ \A j \in 1..(i - 1) : SubSeq(text, j, j) \notin chars
  ELSE 0

RECURSIVE SplitOn(_, _)
\* text.split(ch)
SplitOn(text, ch) ==
  LET i == FirstOf(text, {ch})
  IN IF i = 0 THEN <<text>>
     ELSE <<SubSeq(text, 1, i - 1)>> \o SplitOn(SubSeq(text, i + 1, Len(text)), ch)

EscapedChars == {"\t", "\n", "\f", "\r", "!", "\"", "#", "$", "%", "&", "'", "(", ")", "+", ",", "/", ":", ";",
                 "<", "=", ">", "?", "@", "[", "\\", "]", "^", "{", "|", "}", "~"}

RECURSIVE FormDecode(_)
\* decoding of application/x-www-form-urlencoded text
FormDecode(text) ==
  IF Len(text) = 0 THEN ""
  ELSE IF SubSeq(text, 1, 1) = "+" THEN " " \o FormDecode(SubSeq(text, 2, Len(text)))
  ELSE IF SubSeq(text, 1, 1) = "%" /\ Len(text) >= 3
            /\ \E ch \in EscapedChars : FormEncodeChar(ch) = SubSeq(text, 1, 3)
  THEN (CHOOSE ch \in EscapedChars : FormEncodeChar(ch) = SubSeq(text, 1, 3))
         \o FormDecode(SubSeq(text, 4, Len(text)))
  ELSE SubSeq(text, 1, 1) \o FormDecode(SubSeq(text, 2, Len(text)))

\* the part of a URL after the origin and before the query string
PathOf(url) ==
  LET rest == SubSeq(url, Len(BaseUrl) + 1, Len(url))
      i == FirstOf(rest, {"?", "#"})
  IN IF i = 0 THEN rest ELSE SubSeq(rest, 1, i - 1)

\* the query string of a URL, without the question mark
QueryOf(url) ==
  LET i == FirstOf(url, {"?"})
  IN IF i = 0 THEN "" ELSE SubSeq(url, i + 1, Len(url))

\* the key/value pairs the query string of a URL holds, in order
QueryPairs(url) ==
  IF QueryOf(url) = "" THEN <<>>
  ELSE LET parts == SplitOn(QueryOf(url), "&")
       IN [i \in 1..Len(parts) |->
             LET eq == FirstOf(parts[i], {"="})
             IN IF eq = 0 THEN <<FormDecode(parts[i]), "">>
                ELSE <<FormDecode(SubSeq(parts[i], 1, eq - 1)),
                       FormDecode(SubSeq(parts[i], eq + 1, Len(parts[i])))>>]

\* the string form of a boolean, a number or a string
StringForm(v) ==
  CASE v.k = "boolean" -> (IF v.b THEN "true" ELSE "false")
    [] v.k = "number" -> ToString(v.n)
    [] v.k = "string" -> v.s

\* the pairs a params mapping should put in the query string
SuppliedPairs(params) ==
  LET kept == SelectSeq(params, LAMBDA e : e.value # Undefined)
  IN [i \in 1..Len(kept) |-> <<kept[i].key, StringForm(kept[i].value)>>]

\* a makeApiRequest call on its own that reached its fetch
AdapterRequested == last.tool = AdapterCallTag /\ last.first.c = "fetch"

\* C22: the query string of the outbound URL holds exactly the keys whose
\* value is not undefined, in the mapping's order, each with the string form
\* of its value (false and 0 included), and there is no query string when no
\* such key exists.
QueryConstruction ==
  /\ AdapterRequested =>
       /\ PathOf(last.first.url) = AdapterEndpoint
       /\ QueryPairs(last.first.url) = SuppliedPairs(last.params)
       /\ SuppliedPairs(last.params) = <<>> => last.first.url = BaseUrl \o AdapterEndpoint
  /\ calls[1].pc = "awaitFetch" /\ calls[1].tool = "crm_get_company_properties" =>
       QueryPairs(calls[1].req.url) =
         SuppliedPairs(<<Entry("archived", calls[1].params.archived),
                         Entry("properties", OptJoin(calls[1].params.properties))>>)

QueryConstructionWitness ==
  /\ AdapterRequested
  /\ last.params = <<Entry("archived", Bool(FALSE)), Entry("limit", Num(0)),
                     Entry("properties", Str("name,domain"))>>
  /\ last.first.url = BaseUrl \o AdapterEndpoint
                        \o "?archived=false&limit=0&properties=name%2Cdomain"

\* C23: every outbound request carries Authorization: Bearer <token> and
\* Accept: application/json; it carries Content-Type: application/json and a
\* JSON payload if and only if a body was supplied.
HeadersOf(apiKey, body, options) ==
  /\ options.headers["Authorization"] = "Bearer " \o apiKey.s
  /\ options.headers["Accept"] = "application/json"
  /\ IF body.k \in {"null", "undefined"}
     THEN /\ DOMAIN options.headers = {"Accept", "Authorization"}
          /\ options.body = NoPayload
     ELSE /\ DOMAIN options.headers = {"Accept", "Authorization", "Content-Type"}
          /\ options.headers["Content-Type"] = "application/json"
          /\ options.body = JSONstringify(body)

RequestHeaders ==
  /\ AdapterRequested =>
       /\ last.first.options.method = last.method
       /\ HeadersOf(last.apiKey, last.body, last.first.options)
  /\ calls[1].pc = "awaitFetch" =>
       /\ calls[1].req.options.method = "GET"
       /\ HeadersOf(calls[1].apiKey, Null, calls[1].req.options)

RequestHeadersWitness ==
  /\ AdapterRequested
  /\ last.method = "DELETE"
  /\ last.body = Null
  /\ last.apiKey = Str("cfg-token")
  /\ DOMAIN last.first.options.headers = {"Accept", "Authorization"}

\* the segments of the path template of a tool that embeds an id, with the id
\* as one segment
TemplateSegments(tool, params) ==
  CASE tool = "crm_get_company" ->
         <<"", "crm", "v3", "objects", "companies", params.companyId.s>>
    [] tool = "crm_archive_object" ->
         <<"", "crm", "v3", "objects", params.objectType.s, params.objectId.s>>

PathTools == {"crm_get_company", "crm_archive_object"}

\* C24: for every tool that embeds a caller-supplied id in the request path,
\* the request targets the tool's own path template with the id as one path
\* segment, and its query string holds only the tool's own query parameters.
PathParametersSafe ==
  calls[1].pc = "awaitFetch" /\ calls[1].tool \in PathTools =>
    /\ SplitOn(PathOf(calls[1].req.url), "/") =
         TemplateSegments(calls[1].tool, calls[1].params)
    /\ QueryPairs(calls[1].req.url) = SuppliedPairs(calls[1].desc.params)

\* the JSON payload of a request, or the empty string
PayloadOf(req) ==
  IF req.options.body = NoPayload THEN "" ELSE req.options.body

\* the argument name of a call is found in the path, the query string or the
\* payload of its request
Forwarded(call, name) ==
  LET v == call.params[name]
  IN CASE v = Undefined -> TRUE
       [] name \in {"objectIds", "productIds"} ->
            Contains(PayloadOf(call.req),
                     "\"inputs\":" \o JSONstringify(
                        Arr([i \in 1..Len(v.items) |-> Obj(<<"id">>, <<v.items[i]>>)])))
       [] name = "objectType" ->
            Contains(PathOf(call.req.url), "/" \o v.s \o "/")
       [] OTHER ->
            Contains(PayloadOf(call.req), "\"" \o name \o "\":" \o JSONstringify(v))

ForwardingTools == {"crm_batch_read_objects", "products_batch_read", "products_search"}

\* C29: every schema-declared argument the caller supplies reaches the
\* upstream request in the path, the query string or the body; products_batch_read
\* forwards properties, propertiesWithHistory and idProperty as
\* crm_batch_read_objects does, and products_search forwards query.
ParameterForwarding ==
  calls[1].pc = "awaitFetch" /\ calls[1].tool \in ForwardingTools =>
    \A name \in DOMAIN calls[1].params : Forwarded(calls[1], name)

\* crm_batch_read_objects alone forwards everything it is given
GenericBatchReadForwards ==
  calls[1].pc = "awaitFetch" /\ calls[1].tool = "crm_batch_read_objects" =>
    \A name \in DOMAIN calls[1].params : Forwarded(calls[1], name)

\* the fetch of the last call failed: it rejected, or the body of its 2xx
\* response is not JSON (as that of a 205 response, which has none)
FailedUnexpectedly ==
  /\ LastIsToolCall
  /\ \/ last.settled.c = "rejected"
     \/ /\ last.settled.c = "response"
        /\ ResponseOk(last.settled)
        /\ last.settled.status # 204
        /\ last.settled.status = 205 \/ last.settled.body.t # "json"

\* the message of the exception a failed fetch ends in
ExceptionMessage(settled) ==
  CASE settled.c = "rejected" -> settled.e.message
    [] settled.status = 205 -> "Unexpected end of JSON input"
    [] settled.body.t = "empty" -> "Unexpected end of JSON input"
    [] settled.body.t = "broken" ->
         (IF settled.body.framing = "content-length" THEN "terminated"
          ELSE "Unexpected end of JSON input")
    [] OTHER -> "Unexpected token '<', \"<html>\" is not valid JSON"

\* C25: when fetch rejects or the 2xx response body cannot be parsed as JSON,
\* the tool call resolves with an envelope whose text is
\* "Error performing request: " followed by the exception's message, and
\* nothing is thrown to the protocol layer.
UnexpectedExceptions ==
  FailedUnexpectedly =>
    /\ last.adapter.c = "throw"
    /\ last.result.c = "return"
    /\ IsEnvelope(last.result.v)
    /\ TextOf(last.result) = "Error performing request: " \o ExceptionMessage(last.settled)

UnexpectedExceptionsWitness ==
  /\ LastIsToolCall
  /\ last.settled = Rejected(NetworkError)
  /\ last.result.c = "return"
  /\ TextOf(last.result) = "Error performing request: fetch failed"

\* the request a call issues, given its tool, its arguments and the token
OwnRequest(tool, params, token) ==
  LET desc == Handler(tool, params)
  IN makeApiRequest(token, desc.endpoint, desc.params, desc.method, desc.body)

\* the completion of a call, given its tool, its arguments, the token and
\* what its own fetch settled with
OwnEnvelope(tool, params, token, settled) ==
  LET first == OwnRequest(tool, params, token)
  IN IF first.c = "fetch"
     THEN handleEndpoint(makeApiRequestWithErrorHandling(makeApiRequestResume(settled).out))
     ELSE handleEndpoint(makeApiRequestWithErrorHandling(first))

\* every request in flight and the last result are those of the call's own
\* arguments, the registry's token and the call's own upstream response
OwnDataOnly ==
  /\ \A c \in Slots :
       calls[c].pc \in {"awaitFetch", "awaitJson"} =>
         calls[c].req = OwnRequest(calls[c].tool, calls[c].params, server.hubspotAccessToken)
  /\ LastIsToolCall =>
       /\ last.req \in {NoRequest, OwnRequest(last.tool, last.params, server.hubspotAccessToken)}
       /\ last.result = OwnEnvelope(last.tool, last.params, server.hubspotAccessToken, last.settled)

\* a step of one call leaves the registry, the environment and every other
\* call as they were
OthersUntouched ==
  server.up =>
    /\ server' = server
    /\ env' = env
    /\ Cardinality({c \in Slots : calls'[c] # calls[c]}) <= 1

\* C26: when several tool calls are in flight on one registry, each call's
\* envelope depends only on its own arguments, the registry's token and its
\* own upstream response, under every interleaving of requests and
\* responses, and no handler changes state another call reads.
CallIsolation == []OwnDataOnly /\ [][OthersUntouched]_vars

\* a call completed while a call of another tool was still in flight
CallIsolationWitness ==
  /\ last.tool = "crm_get_company"
  /\ last.settled = Response(200, JsonBody(SampleBody))
  /\ calls[1].pc = "awaitFetch"
  /\ calls[1].tool = "crm_archive_object"
  /\ calls[2].pc = "idle"

(***************************************************************************)
(* The JavaScript entry point, index.js: one registry made when the module *)
(* is loaded, the token read from process.env by every request, and a      *)
(* formatter that wraps diagnostic strings in {error, status}.             *)
(***************************************************************************)
\* JSON.stringify(undefined) is undefined: the item has no text
NoText == "(undefined)"

\* formatResponse(messageOrData, status = 200) of index.js
formatResponseJs(messageOrData, status) ==
  LET isError == TypeOf(messageOrData) = "string"
      text == IF isError
              THEN JSONstringify(Obj(<<"error", "status">>, <<messageOrData, status>>))
              ELSE IF messageOrData.k = "undefined" THEN NoText
              ELSE JSONstringify(messageOrData)
  IN [content |-> <<[type |-> "text", text |-> text]>>]

\* makeApiRequest of index.js up to its fetch: apiKey is process.env.HUBSPOT_ACCESS_TOKEN
makeApiRequestJs(envToken, endpoint, params, method, body) ==
  IF Falsy(envToken) THEN Throw(ConfigError)
  ELSE IF \E i \in 1..Len(params) : params[i].value.k = "null"
  THEN Throw(Err("TypeError", "Cannot read properties of null (reading 'toString')"))
  ELSE Await(BuildUrl(endpoint, params), RequestOptions(envToken, method, body))

\* a response as index.js reads it: status, statusText and body
ResponseJs(status, statusText, body) ==
  [c |-> "response", status |-> status, statusText |-> statusText, body |-> body]

\* the reason phrase an HTTP/1.1 answer carries for a status (the standard
\* phrases, as node's http.STATUS_CODES lists them)
ReasonPhrase(status) ==
  CASE status = 100 -> "Continue"
    [] status = 101 -> "Switching Protocols"
    [] status = 102 -> "Processing"
    [] status = 103 -> "Early Hints"
    [] status = 200 -> "OK"
    [] status = 201 -> "Created"
    [] status = 202 -> "Accepted"
    [] status = 203 -> "Non-Authoritative Information"
    [] status = 204 -> "No Content"
    [] status = 205 -> "Reset Content"
    [] status = 206 -> "Partial Content"
    [] status = 207 -> "Multi-Status"
    [] status = 208 -> "Already Reported"
    [] status = 226 -> "IM Used"
    [] status = 300 -> "Multiple Choices"
    [] status = 301 -> "Moved Permanently"
    [] status = 302 -> "Found"
    [] status = 303 -> "See Other"
    [] status = 304 -> "Not Modified"
    [] status = 305 -> "Use Proxy"
    [] status = 307 -> "Temporary Redirect"
    [] status = 308 -> "Permanent Redirect"
    [] status = 400 -> "Bad Request"
    [] status = 401 -> "Unauthorized"
    [] status = 402 -> "Payment Required"
    [] status = 403 -> "Forbidden"
    [] status = 404 -> "Not Found"
    [] status = 405 -> "Method Not Allowed"
    [] status = 406 -> "Not Acceptable"
    [] status = 407 -> "Proxy Authentication Required"
    [] status = 408 -> "Request Timeout"
    [] status = 409 -> "Conflict"
    [] status = 410 -> "Gone"
    [] status = 411 -> "Length Required"
    [] status = 412 -> "Precondition Failed"
    [] status = 413 -> "Payload Too Large"
    [] status = 414 -> "URI Too Long"
    [] status = 415 -> "Unsupported Media Type"
    [] status = 416 -> "Range Not Satisfiable"
    [] status = 417 -> "Expectation Failed"
    [] status = 418 -> "I'm a Teapot"
    [] status = 421 -> "Misdirected Request"
    [] status = 422 -> "Unprocessable Entity"
    [] status = 423 -> "Locked"
    [] status = 424 -> "Failed Dependency"
    [] status = 425 -> "Too Early"
    [] status = 426 -> "Upgrade Required"
    [] status = 428 -> "Precondition Required"
    [] status = 429 -> "Too Many Requests"
    [] status = 431 -> "Request Header Fields Too Large"
    [] status = 451 -> "Unavailable For Legal Reasons"
    [] status = 500 -> "Internal Server Error"
    [] status = 501 -> "Not Implemented"
    [] status = 502 -> "Bad Gateway"
    [] status = 503 -> "Service Unavailable"
    [] status = 504 -> "Gateway Timeout"
    [] status = 505 -> "HTTP Version Not Supported"
    [] status = 506 -> "Variant Also Negotiates"
    [] status = 507 -> "Insufficient Storage"
    [] status = 508 -> "Loop Detected"
    [] status = 509 -> "Bandwidth Limit Exceeded"
    [] status = 510 -> "Not Extended"
    [] status = 511 -> "Network Authentication Required"
    [] OTHER -> ""

\* everything a fetch of index.js can settle with: the statusText of an
\* answer is its reason phrase, or empty (HTTP/2)
SettlementsJs ==
  {Rejected(NetworkError)}
    \cup UNION {{ResponseJs(st, text, b) : text \in {"", ReasonPhrase(st)}, b \in Bodies} :
                  st \in StatusCodes}

\* response.statusText
StatusText(response) == response.statusText

\* makeApiRequest of index.js after its fetch settled
makeApiRequestResumeJs(settled) ==
  IF settled.c = "rejected" THEN [out |-> Throw(settled.e), read |-> FALSE]
  ELSE IF ~ResponseOk(settled)
  THEN LET parsed == ResponseJson(settled)
           errorData == IF parsed.c = "return" THEN parsed.v ELSE Null
           message == MessageOf(errorData)
       IN [out |-> Throw(Err("Error",
                     IF Truthy(message) THEN Interpolate(message)
                     ELSE "Error fetching data from HubSpot: " \o StatusText(settled))),
           read |-> TRUE]
  ELSE [out |-> ResponseJson(settled), read |-> TRUE]

\* makeApiRequestWithErrorHandling of index.js
makeApiRequestWithErrorHandlingJs(completion) ==
  IF completion.c = "return" THEN Return(formatResponseJs(completion.v, Num(200)))
  ELSE IF completion.v.k \in {"null", "undefined"}
  THEN Throw(Err("TypeError", "Cannot read properties of " \o completion.v.k \o " (reading 'message')"))
  ELSE Return(formatResponseJs(Str("Error performing request: " \o Interpolate(MessageOf(completion.v))),
                               Num(500)))

\* error.status || 403
ErrorStatus(e) ==
  IF e.k = "object" /\ (\E i \in 1..Len(e.keys) : e.keys[i] = "status")
       /\ Truthy(e.vals[CHOOSE i \in 1..Len(e.keys) : e.keys[i] = "status"])
  THEN e.vals[CHOOSE i \in 1..Len(e.keys) : e.keys[i] = "status"]
  ELSE Num(403)

\* handleEndpoint of index.js
handleEndpointJs(completion) ==
  IF completion.c = "return" THEN completion
  ELSE IF completion.v.k \in {"null", "undefined"}
  THEN Throw(Err("TypeError", "Cannot read properties of " \o completion.v.k \o " (reading 'message')"))
  ELSE Return(formatResponseJs(MessageOf(completion.v), ErrorStatus(completion.v)))

crm_delete_object(params) ==
  [endpoint |-> "/crm/v3/objects/" \o Interpolate(params.objectType) \o "/" \o Interpolate(params.objectId),
   params |-> <<>>,
   method |-> "DELETE",
   body |-> Null]

\* arguments of crm_delete_object its schema accepts
DeleteArgs ==
  {[objectType |-> Str(t), objectId |-> Str(id)] : t \in {"companies", "contacts"}, id \in {"123", "456"}}

\* the record of a completed call of index.js
CompletedJs(tool, params, apiKey, desc, nfetch, req, settled, adapter, read) ==
  [tool |-> tool, params |-> params, apiKey |-> apiKey, desc |-> desc,
   nfetch |-> nfetch, req |-> req, settled |-> settled,
   adapter |-> adapter, read |-> read,
   result |-> handleEndpointJs(makeApiRequestWithErrorHandlingJs(adapter))]

\* await server.connect(new StdioServerTransport()): the one registry of the module
ConnectJs ==
  /\ ~server.up
  /\ server' = [up |-> TRUE, hubspotAccessToken |-> Undefined]
  /\ UNCHANGED <<env, calls, last>>
  /\ UNCHANGED netvars

\* tools/call crm_delete_object: the handler runs up to its fetch
CallDeleteJs(c, params) ==
  /\ server.up
  /\ calls[c].pc = "idle"
  /\ LET desc == crm_delete_object(params)
         first == makeApiRequestJs(env, desc.endpoint, desc.params, desc.method, desc.body)
     IN IF first.c = "fetch"
        THEN /\ calls' = [calls EXCEPT ![c] =
                   [pc |-> "awaitFetch", tool |-> "crm_delete_object", params |-> params,
                    apiKey |-> env, desc |-> desc, req |-> first, nfetch |-> 1]]
             /\ UNCHANGED last
        ELSE /\ last' = CompletedJs("crm_delete_object", params, env, desc, 0, NoRequest,
                                    NoSettlement, first, FALSE)
             /\ UNCHANGED calls
  /\ UNCHANGED <<env, server>>
  /\ UNCHANGED netvars

\* await fetch(url, requestOptions) of a call of index.js settles: after a
\* rejection the handler runs to its end, after the head of a response it
\* waits again, at response.json()
FetchSettlesJs(c, settled) ==
  /\ calls[c].pc = "awaitFetch"
  /\ LET call == calls[c]
         rest == makeApiRequestResumeJs(settled)
     IN IF rest.read
        THEN /\ calls' = [calls EXCEPT ![c] =
                   [pc |-> "awaitJson", tool |-> call.tool, params |-> call.params,
                    apiKey |-> call.apiKey, desc |-> call.desc, req |-> call.req,
                    nfetch |-> call.nfetch, status |-> settled.status,
                    statusText |-> settled.statusText]]
             /\ UNCHANGED last
        ELSE /\ last' = CompletedJs(call.tool, call.params, call.apiKey, call.desc, call.nfetch,
                                    call.req, settled, rest.out, rest.read)
             /\ calls' = [calls EXCEPT ![c] = Idle]
  /\ UNCHANGED <<env, server>>
  /\ UNCHANGED netvars

\* await response.json() of a call of index.js settles with the body that
\* arrived, and the handler runs to its end
BodySettlesJs(c, body) ==
  /\ calls[c].pc = "awaitJson"
  /\ LET call == calls[c]
         settled == ResponseJs(call.status, call.statusText, body)
         rest == makeApiRequestResumeJs(settled)
     IN /\ last' = CompletedJs(call.tool, call.params, call.apiKey, call.desc, call.nfetch,
                               call.req, settled, rest.out, rest.read)
        /\ calls' = [calls EXCEPT ![c] = Idle]
  /\ UNCHANGED <<env, server>>
  /\ UNCHANGED netvars

NextJs ==
  \/ ConnectJs
  \/ \E params \in DeleteArgs : CallDeleteJs(1, params)
  \/ \E settled \in SettlementsJs : FetchSettlesJs(1, settled)
  \/ \E body \in Bodies : BodySettlesJs(1, body)

SpecJs == Init /\ [][NextJs]_vars

\* C30: in index.js a crm_delete_object call whose upstream DELETE is answered
\* with 204 yields exactly one content item whose text equals
\* "No data returned: Status 204".
DeleteOutcomeJs ==
  /\ last.tool = "crm_delete_object"
  /\ last.settled.c = "response"
  /\ last.settled.status = 204
  => /\ last.result.c = "return"
     /\ Len(last.result.v.content) = 1
     /\ TextOf(last.result) = "No data returned: Status 204"

\* what index.js answers instead
DeleteOutcomeJsActual ==
  /\ last.tool = "crm_delete_object"
  /\ last.settled = ResponseJs(204, "No Content", EmptyBody)
  => /\ last.result.c = "return"
     /\ Len(last.result.v.content) = 1
     /\ TextOf(last.result) =
          "{\"error\":\"Error performing request: Unexpected end of JSON input\",\"status\":500}"

====
